---------------------------- MODULE Spec2Model ----------------------------
(***************************************************************************)
(* dircontxt: versioned, diff-aware snapshots of a directory tree.         *)
(*                                                                         *)
(* The module models the snapshot command (main.c) as a state machine over *)
(* the artifacts on disk, together with the pure functions it is built     *)
(* from: the version arithmetic (version.c), the ignore engine (ignore.c), *)
(* the archive writer and reader (writer.c, dctx_reader.c), the differ     *)
(* (diff.c) and the content verification of main.c.                        *)
(*                                                                         *)
(* Strings are sequences of one-character strings; bytes are integers in   *)
(* 0..255.  A file on disk is a record with an "exists" flag.              *)
(***************************************************************************)
EXTENDS Integers, Sequences, FiniteSets, TLC

VARIABLES
  \* --- the disk -----------------------------------------------------------
  fs,               \* the target directory: path -> entry
  projIgnore,       \* <root>/.dircontxtignore
  globalIgnore,     \* $HOME/.config/dircontxt/ignore
  archive,          \* <B>.dircontxt
  manifest,         \* <B>.llmcontext.txt
  diffs,            \* the version tokens V for which <B>.llmcontext-V-diff.txt exists
  output_mode,      \* config.output_mode
  \* --- locals of main() ---------------------------------------------------
  pc,
  old_version, new_version, is_update_mode,
  old_tree, old_data_offset,
  ignore_rules, new_tree,
  report, has_actual_changes,
  diff_filepath, exit_code,
  \* --- arguments and results of the functions exercised on their own ------
  item,             \* the argument of should_ignore_item
  verdict,          \* its result
  parsed,           \* the result of dctx_read_and_parse_header
  \* --- history (not program state) ----------------------------------------
  hist

vars == << fs, projIgnore, globalIgnore, archive, manifest, diffs, output_mode,
           pc, old_version, new_version, is_update_mode, old_tree,
           old_data_offset, ignore_rules, new_tree, report,
           has_actual_changes, diff_filepath, exit_code,
           item, verdict, parsed, hist >>

diskVars == << fs, projIgnore, globalIgnore, archive, manifest, diffs, output_mode >>

-----------------------------------------------------------------------------
(* Bounds *)

MaxVerLen == 4        \* longest version token fed to calculate_next_version
MaxIgnoreLines == 2   \* most lines of an ignore file
MaxField == 16777216  \* integers read from an archive are exact below this value

-----------------------------------------------------------------------------
(* Strings *)

Digits == << "0", "1", "2", "3", "4", "5", "6", "7", "8", "9" >>

IsDigit(c) == \E i \in 1..10 : Digits[i] = c

DigitVal(c) == (CHOOSE i \in 1..10 : Digits[i] = c) - 1

\* isspace() on the characters the model uses
IsSpace(c) == c \in {" ", "\t", "\n", "\r"}

RECURSIVE NatToStr(_)
NatToStr(n) == IF n < 10 THEN << Digits[n + 1] >>
               ELSE NatToStr(n \div 10) \o << Digits[(n % 10) + 1] >>

\* printf("%d")
IntToStr(n) == IF n < 0 THEN << "-" >> \o NatToStr(0 - n) ELSE NatToStr(n)

\* all strings over alphabet A of length at most n
RECURSIVE StringsUpTo(_, _)
StringsUpTo(A, n) ==
  IF n = 0 THEN { << >> }
  ELSE LET shorter == StringsUpTo(A, n - 1)
       IN  shorter \cup { Append(s, c) : s \in shorter, c \in A }

StartsWith(s, p) == Len(s) >= Len(p) /\ SubSeq(s, 1, Len(p)) = p

EndsWith(s, p) == Len(s) >= Len(p) /\ SubSeq(s, Len(s) - Len(p) + 1, Len(s)) = p

Drop(s, n) == SubSeq(s, n + 1, Len(s))

\* strchr(s, c) != NULL
Contains(s, c) == \E i \in 1..Len(s) : s[i] = c

-----------------------------------------------------------------------------
(* version.c *)

\* The %d conversion of sscanf at position i of s: skip white space, accept
\* an optional sign, then at least one digit.  The result says whether the
\* conversion matched, the value, and the position after it.
RECURSIVE SkipSpace(_, _)
SkipSpace(s, i) == IF i <= Len(s) /\ IsSpace(s[i]) THEN SkipSpace(s, i + 1) ELSE i

RECURSIVE ScanDigits(_, _, _)
ScanDigits(s, i, acc) ==
  IF i <= Len(s) /\ IsDigit(s[i])
  THEN ScanDigits(s, i + 1, acc * 10 + DigitVal(s[i]))
  ELSE [val |-> acc, next |-> i]

ScanInt(s, i) ==
  LET j    == SkipSpace(s, i)
      neg  == j <= Len(s) /\ s[j] = "-"
      k    == IF j <= Len(s) /\ s[j] \in {"-", "+"} THEN j + 1 ELSE j
      d    == ScanDigits(s, k, 0)
  IN  IF d.next = k
      THEN [ok |-> FALSE, val |-> 0, next |-> i]
      ELSE [ok |-> TRUE, val |-> IF neg THEN 0 - d.val ELSE d.val, next |-> d.next]

\* sscanf(s, "V%d.%d", &major, &minor): the number of conversions done
SscanfMajorMinor(s) ==
  IF ~(Len(s) >= 1 /\ s[1] = "V") THEN [n |-> 0, major |-> 0, minor |-> 0]
  ELSE LET a == ScanInt(s, 2)
       IN  IF ~a.ok THEN [n |-> 0, major |-> 0, minor |-> 0]
           ELSE IF ~(a.next <= Len(s) /\ s[a.next] = ".")
                THEN [n |-> 1, major |-> a.val, minor |-> 0]
                ELSE LET b == ScanInt(s, a.next + 1)
                     IN  IF ~b.ok THEN [n |-> 1, major |-> a.val, minor |-> 0]
                         ELSE [n |-> 2, major |-> a.val, minor |-> b.val]

\* sscanf(s, "V%d", &major)
SscanfMajor(s) ==
  IF ~(Len(s) >= 1 /\ s[1] = "V") THEN [n |-> 0, major |-> 0]
  ELSE LET a == ScanInt(s, 2)
       IN  IF a.ok THEN [n |-> 1, major |-> a.val] ELSE [n |-> 0, major |-> 0]

V1 == << "V", "1" >>

calculate_next_version(old) ==
  LET mm == SscanfMajorMinor(old)
      m  == SscanfMajor(old)
  IN  IF mm.n = 2
      THEN << "V" >> \o IntToStr(mm.major) \o << "." >> \o IntToStr(mm.minor + 1)
      ELSE IF m.n = 1
           THEN << "V" >> \o IntToStr(m.major) \o << "." >> \o IntToStr(1)
           ELSE V1


-----------------------------------------------------------------------------
(* ignore.c *)

SEP == "/"

DEFAULT_IGNORE_FILENAME ==
  << ".", "d", "i", "r", "c", "o", "n", "t", "x", "t", "i", "g", "n", "o", "r", "e" >>

\* the leading white space of a line removed
RECURSIVE TrimLeft(_)
TrimLeft(s) == IF s # << >> /\ IsSpace(s[1]) THEN TrimLeft(Drop(s, 1)) ELSE s

\* the trailing white space (and line terminator) of a line removed
RECURSIVE TrimRight(_)
TrimRight(s) == IF s # << >> /\ IsSpace(s[Len(s)])
                THEN TrimRight(SubSeq(s, 1, Len(s) - 1)) ELSE s

\* parse_ignore_pattern_line returns false for a blank line or a comment
IsRuleLine(orig_line) ==
  LET line == TrimRight(TrimLeft(orig_line))
  IN  line # << >> /\ line[1] # "#"

\* parse_ignore_pattern_line: the rule it stores for a line it accepts
parse_ignore_pattern_line(orig_line) ==
  LET line     == TrimRight(TrimLeft(orig_line))
      dir_only == Len(line) > 0 /\ line[Len(line)] = SEP
      pat      == IF dir_only THEN SubSeq(line, 1, Len(line) - 1) ELSE line
      len      == Len(pat)
      prefix   == len > 1 /\ pat[len] = "*" /\ pat[len - 1] = SEP
      suffix   == ~prefix /\ len > 1 /\ pat[1] = "*" /\ pat[2] = "."
  IN  [ pattern                  |-> IF prefix THEN SubSeq(pat, 1, len - 1) ELSE pat,
        is_dir_only              |-> dir_only,
        is_wildcard_prefix_match |-> prefix,
        is_wildcard_suffix_match |-> suffix,
        is_exact_name_match      |-> ~prefix /\ ~suffix ]

ExactNameRule(name) ==
  [ pattern |-> name, is_dir_only |-> FALSE, is_wildcard_prefix_match |-> FALSE,
    is_wildcard_suffix_match |-> FALSE, is_exact_name_match |-> TRUE ]

\* the rules of the lines of one ignore file, in file order
RECURSIVE ParseLines(_)
ParseLines(lines) ==
  IF lines = << >> THEN << >>
  ELSE (IF IsRuleLine(lines[1]) THEN << parse_ignore_pattern_line(lines[1]) >>
        ELSE << >>) \o ParseLines(Tail(lines))

\* load_ignore_rules: the two built-in rules, then the rules of the project
\* file when it can be opened.  The global file is not read.
load_ignore_rules(output_filename_to_ignore, project_file, global_file) ==
  << ExactNameRule(DEFAULT_IGNORE_FILENAME) >>
  \o (IF output_filename_to_ignore # << >>
      THEN << ExactNameRule(output_filename_to_ignore) >> ELSE << >>)
  \o (IF project_file.exists THEN ParseLines(project_file.lines) ELSE << >>)

\* strchr(pattern, '.'): the pattern from its first '.' on; pattern + 1 if none
RECURSIVE FromFirstDot(_)
FromFirstDot(s) == IF s = << >> THEN << >>
                   ELSE IF s[1] = "." THEN s ELSE FromFirstDot(Drop(s, 1))

SuffixToMatch(pattern) ==
  IF Contains(pattern, ".") THEN FromFirstDot(pattern) ELSE Drop(pattern, 1)

\* one iteration of the loop of should_ignore_item: does rule make it return true
RuleIgnores(rule, item_relative_path, item_name, is_item_dir) ==
  IF rule.is_dir_only /\ ~is_item_dir THEN FALSE
  ELSE
    \/ IF rule.is_wildcard_suffix_match
         THEN EndsWith(item_name, SuffixToMatch(rule.pattern))
       ELSE IF rule.is_wildcard_prefix_match
         THEN /\ StartsWith(item_relative_path, rule.pattern)
              /\ item_relative_path[Len(rule.pattern)] = SEP
       ELSE IF rule.is_exact_name_match
         THEN IF ~Contains(rule.pattern, SEP)
              THEN item_name = rule.pattern
              ELSE \/ item_relative_path = rule.pattern
                   \/ is_item_dir /\ Append(item_relative_path, SEP) = rule.pattern
       ELSE FALSE
    \/ rule.is_dir_only /\ item_name = rule.pattern

\* should_ignore_item: true at the first rule that matches
RECURSIVE should_ignore_item(_, _, _, _)
should_ignore_item(item_relative_path, item_name, is_item_dir, rules) ==
  IF rules = << >> THEN FALSE
  ELSE IF RuleIgnores(rules[1], item_relative_path, item_name, is_item_dir)
       THEN TRUE
       ELSE should_ignore_item(item_relative_path, item_name, is_item_dir, Tail(rules))

-----------------------------------------------------------------------------
(* Values shared by the specifications *)

NULL == [null |-> TRUE]

NoFile == [exists |-> FALSE, bytes |-> << >>]

NoLines == [exists |-> FALSE, lines |-> << >>]

NoManifest == [exists |-> FALSE, line |-> << >>]

\* every variable the version specification does not use, at rest
RestOfVersion ==
  /\ fs = << >> /\ projIgnore = NoLines /\ globalIgnore = NoLines
  /\ archive = NoFile /\ manifest = NoManifest /\ diffs = {} /\ output_mode = "both"
  /\ is_update_mode = FALSE /\ old_tree = NULL /\ old_data_offset = 0
  /\ ignore_rules = << >> /\ new_tree = NULL /\ report = NULL
  /\ has_actual_changes = FALSE /\ diff_filepath = << >> /\ exit_code = 0
  /\ item = NULL /\ verdict = FALSE /\ parsed = NULL /\ hist = << >>

-----------------------------------------------------------------------------
(* calculate_next_version applied to every short string *)

VersionAlphabet == {"V", "0", "1", "9", ".", "x", "-", " "}

InitVersion ==
  /\ pc = "version_call"
  /\ old_version \in StringsUpTo(VersionAlphabet, MaxVerLen)
  /\ new_version = << >>
  /\ RestOfVersion

CallCalculateNextVersion ==
  /\ pc = "version_call"
  /\ new_version' = calculate_next_version(old_version)
  /\ pc' = "version_done"
  /\ UNCHANGED << diskVars, old_version, is_update_mode, old_tree,
                  old_data_offset, ignore_rules, new_tree, report,
                  has_actual_changes, diff_filepath, exit_code,
                  item, verdict, parsed, hist >>

NextVersion == CallCalculateNextVersion

SpecVersion == InitVersion /\ [][NextVersion]_vars

\* The two shapes of a version token, V<a> and V<a>.<b>, a and b being
\* non-empty runs of digits
AllDigits(s) == Len(s) >= 1 /\ \A i \in 1..Len(s) : IsDigit(s[i])

RECURSIVE StrToNat(_)
StrToNat(s) == IF s = << >> THEN 0
               ELSE StrToNat(SubSeq(s, 1, Len(s) - 1)) * 10 + DigitVal(s[Len(s)])

IsMajorOnly(s) == Len(s) >= 2 /\ s[1] = "V" /\ AllDigits(Drop(s, 1))

IsMajorMinor(s) ==
  /\ Len(s) >= 4 /\ s[1] = "V"
  /\ \E k \in 3..(Len(s) - 1) :
       s[k] = "." /\ AllDigits(SubSeq(s, 2, k - 1)) /\ AllDigits(Drop(s, k))

DotOf(s) == CHOOSE k \in 3..(Len(s) - 1) :
              s[k] = "." /\ AllDigits(SubSeq(s, 2, k - 1)) /\ AllDigits(Drop(s, k))

NextVersionByRule(s) ==
  IF IsMajorMinor(s)
  THEN << "V" >> \o NatToStr(StrToNat(SubSeq(s, 2, DotOf(s) - 1))) \o << "." >>
         \o NatToStr(StrToNat(Drop(s, DotOf(s))) + 1)
  ELSE IF IsMajorOnly(s)
       THEN << "V" >> \o NatToStr(StrToNat(Drop(s, 1))) \o << ".", "1" >>
       ELSE V1

\* C4: calculate_next_version maps V<a>.<b> to V<a>.<b+1>, V<a> to V<a>.1 and
\* every other string to V1.
C4_NextVersionRule ==
  pc = "version_done" => new_version = NextVersionByRule(old_version)

\* The part of C4 that the code keeps: the two shapes are incremented.
C4_ShapesIncremented ==
  (pc = "version_done" /\ (IsMajorMinor(old_version) \/ IsMajorOnly(old_version)))
     => new_version = NextVersionByRule(old_version)

-----------------------------------------------------------------------------
(* load_ignore_rules and should_ignore_item applied to small rule files *)

OutputName == << "p", ".", "d", "i", "r", "c", "o", "n", "t", "x", "t" >>

Name_git          == << ".", "g", "i", "t" >>
Name_DS_Store     == << ".", "D", "S", "_", "S", "t", "o", "r", "e" >>
Name_node_modules == << "n", "o", "d", "e", "_", "m", "o", "d", "u", "l", "e", "s" >>

\* the lines an ignore file of the model may hold
IgnoreLines ==
  { << "*", ".", "l", "o", "g" >>,                               \* *.log
    << "!", "i", "g", "n", "o", "r", "e", "d", ".", "l", "o", "g" >>,  \* !ignored.log
    << "b", "u", "i", "l", "d", "/" >>,                          \* build/
    << "b", "u", "i", "l", "d", "/", "*" >>,                     \* build/*
    << "*", "l", "o", "g" >>,                                    \* *log
    << "#", " ", "x" >>,                                         \* a comment
    << " ", "a", "/", "b", " " >> }                              \* a path, padded

IgnoreFiles ==
  { NoLines } \cup
  { [exists |-> TRUE, lines |-> l] : l \in StringsUpTo(IgnoreLines, MaxIgnoreLines) }

\* the items the walker may ask about: directories carry a trailing separator
IgnoreItems ==
  { [path |-> << "b", "u", "i", "l", "d", "/", "i", "g", "n", "o", "r", "e", "d", ".", "l", "o", "g" >>,
     name |-> << "i", "g", "n", "o", "r", "e", "d", ".", "l", "o", "g" >>, is_dir |-> FALSE],
    [path |-> << "d", "e", "b", "u", "g", ".", "l", "o", "g" >>,
     name |-> << "d", "e", "b", "u", "g", ".", "l", "o", "g" >>, is_dir |-> FALSE],
    [path |-> << "b", "u", "i", "l", "d", "/" >>,
     name |-> << "b", "u", "i", "l", "d" >>, is_dir |-> TRUE],
    [path |-> << "b", "u", "i", "l", "d", "/", "x" >>,
     name |-> << "x" >>, is_dir |-> FALSE],
    [path |-> << "a", "/", "b" >>, name |-> << "b" >>, is_dir |-> FALSE],
    [path |-> << "c", "a", "t", "a", "l", "o", "g" >>,
     name |-> << "c", "a", "t", "a", "l", "o", "g" >>, is_dir |-> FALSE],
    [path |-> << ".", "g", "i", "t", "/" >>, name |-> Name_git, is_dir |-> TRUE],
    [path |-> OutputName, name |-> OutputName, is_dir |-> FALSE] }

RestOfIgnore ==
  /\ fs = << >> /\ archive = NoFile /\ manifest = NoManifest /\ diffs = {}
  /\ output_mode = "both" /\ old_version = << >> /\ new_version = << >>
  /\ is_update_mode = FALSE /\ old_tree = NULL /\ old_data_offset = 0
  /\ new_tree = NULL /\ report = NULL /\ has_actual_changes = FALSE
  /\ diff_filepath = << >> /\ exit_code = 0 /\ parsed = NULL /\ hist = << >>

InitIgnore ==
  /\ pc = "ignore_load"
  /\ projIgnore \in IgnoreFiles
  /\ globalIgnore \in { NoLines, [exists |-> TRUE, lines |-> << << "*", ".", "l", "o", "g" >> >>] }
  /\ item \in IgnoreItems
  /\ ignore_rules = << >>
  /\ verdict = FALSE
  /\ RestOfIgnore

CallLoadIgnoreRules ==
  /\ pc = "ignore_load"
  /\ ignore_rules' = load_ignore_rules(OutputName, projIgnore, globalIgnore)
  /\ pc' = "ignore_check"
  /\ UNCHANGED << diskVars, old_version, new_version, is_update_mode, old_tree,
                  old_data_offset, new_tree, report, has_actual_changes,
                  diff_filepath, exit_code, item, verdict, parsed, hist >>

CallShouldIgnoreItem ==
  /\ pc = "ignore_check"
  /\ verdict' = should_ignore_item(item.path, item.name, item.is_dir, ignore_rules)
  /\ pc' = "ignore_done"
  /\ UNCHANGED << diskVars, old_version, new_version, is_update_mode, old_tree,
                  old_data_offset, ignore_rules, new_tree, report,
                  has_actual_changes, diff_filepath, exit_code, item, parsed, hist >>

NextIgnore == CallLoadIgnoreRules \/ CallShouldIgnoreItem

SpecIgnore == InitIgnore /\ [][NextIgnore]_vars

\* A rule list with negation: a line that starts with '!' is the rule of the
\* rest of the line, negated.
IsNegationLine(orig_line) ==
  LET line == TrimLeft(orig_line) IN line # << >> /\ line[1] = "!"

WithoutBang(orig_line) ==
  IF IsNegationLine(orig_line) THEN Drop(TrimLeft(orig_line), 1) ELSE orig_line

RECURSIVE NegatableRules(_)
NegatableRules(lines) ==
  IF lines = << >> THEN << >>
  ELSE (IF IsRuleLine(WithoutBang(lines[1]))
        THEN << [rule     |-> parse_ignore_pattern_line(WithoutBang(lines[1])),
                 negation |-> IsNegationLine(lines[1])] >>
        ELSE << >>)
       \o NegatableRules(Tail(lines))

\* the scan in load order: each matching rule sets ignored to ~negation
RECURSIVE LastMatchWins(_, _, _)
LastMatchWins(rules, x, ignored) ==
  IF rules = << >> THEN ignored
  ELSE LastMatchWins(Tail(rules), x,
         IF RuleIgnores(rules[1].rule, x.path, x.name, x.is_dir)
         THEN ~rules[1].negation ELSE ignored)

\* the rule list of the run: the built-in rules, then the project file
LoadedNegatableRules ==
  << [rule |-> ExactNameRule(DEFAULT_IGNORE_FILENAME), negation |-> FALSE],
     [rule |-> ExactNameRule(OutputName), negation |-> FALSE] >>
  \o (IF projIgnore.exists THEN NegatableRules(projIgnore.lines) ELSE << >>)

\* C9: should_ignore_item returns the last-match-wins value of the rule
\* list: scanning in load order from "not ignored", each matching rule sets
\* the status to the opposite of its negation flag, so a later negation rule
\* re-includes an item an earlier rule matched (`*.log` then `!ignored.log`:
\* build/ignored.log is included, debug.log is excluded).
C9_LastMatchWins ==
  pc = "ignore_done" => verdict = LastMatchWins(LoadedNegatableRules, item, FALSE)

\* The rule a line stands for when it is read as: optional '!' (negation),
\* optional trailing separator (directory only), then by the remainder a
\* path prefix (`dir/*`, the '*' dropped), a path, a suffix (`*x`, the '*'
\* dropped) or a base name.
ClaimedRule(orig_line) ==
  LET line     == TrimRight(TrimLeft(orig_line))
      negation == line # << >> /\ line[1] = "!"
      l1       == IF negation THEN Drop(line, 1) ELSE line
      dir_only == l1 # << >> /\ l1[Len(l1)] = SEP
      l2       == IF dir_only THEN SubSeq(l1, 1, Len(l1) - 1) ELSE l1
      has_sep  == Contains(l2, SEP)
      prefix   == has_sep /\ l2[Len(l2)] = "*"
      suffix   == ~has_sep /\ l2 # << >> /\ l2[1] = "*"
  IN  [ pattern     |-> IF prefix THEN SubSeq(l2, 1, Len(l2) - 1)
                        ELSE IF suffix THEN Drop(l2, 1) ELSE l2,
        type        |-> IF prefix THEN "PATTERN_TYPE_PREFIX"
                        ELSE IF has_sep THEN "PATTERN_TYPE_PATH"
                        ELSE IF suffix THEN "PATTERN_TYPE_SUFFIX"
                        ELSE "PATTERN_TYPE_BASENAME",
        is_dir_only |-> dir_only,
        is_negation |-> negation ]

\* the rule parse_ignore_pattern_line stored, in those terms: the stored
\* suffix pattern keeps its '*', which the match skips; no flag of the stored
\* rule records a negation
StoredRule(rule) ==
  [ pattern     |-> IF rule.is_wildcard_suffix_match THEN Drop(rule.pattern, 1)
                    ELSE rule.pattern,
    type        |-> IF rule.is_wildcard_prefix_match THEN "PATTERN_TYPE_PREFIX"
                    ELSE IF rule.is_wildcard_suffix_match THEN "PATTERN_TYPE_SUFFIX"
                    ELSE IF Contains(rule.pattern, SEP) THEN "PATTERN_TYPE_PATH"
                    ELSE "PATTERN_TYPE_BASENAME",
    is_dir_only |-> rule.is_dir_only,
    is_negation |-> FALSE ]

RuleLines(lines) == SelectSeq(lines, IsRuleLine)

ProjectRules ==
  LET n == IF projIgnore.exists THEN Len(RuleLines(projIgnore.lines)) ELSE 0
  IN  SubSeq(ignore_rules, Len(ignore_rules) - n + 1, Len(ignore_rules))

\* C22: every line of the project file that is not blank and not a comment
\* is stored as the rule the line stands for: '!' as negation, a trailing
\* separator as directory-only, and the pattern type and pattern by the
\* remainder (prefix, path, suffix for any `*x`, base name).
C22_ParsedRule ==
  (pc = "ignore_check" /\ projIgnore.exists) =>
    \A i \in 1..Len(RuleLines(projIgnore.lines)) :
      StoredRule(ProjectRules[i]) = ClaimedRule(RuleLines(projIgnore.lines)[i])

\* the same for the lines without '!' and without a `*x` other than `*.x`
PlainLine(orig_line) ==
  LET line == TrimRight(TrimLeft(orig_line))
  IN  /\ line[1] # "!"
      /\ (line[1] = "*" => Len(line) > 1 /\ line[2] = ".")

ParsedRuleOfPlainLines ==
  (pc = "ignore_check" /\ projIgnore.exists) =>
    \A i \in 1..Len(RuleLines(projIgnore.lines)) :
      PlainLine(RuleLines(projIgnore.lines)[i]) =>
        StoredRule(ProjectRules[i]) = ClaimedRule(RuleLines(projIgnore.lines)[i])

HasRule(rules, name, dir_only) ==
  \E i \in 1..Len(rules) : rules[i].pattern = name /\ rules[i].is_dir_only = dir_only

\* C10: the rule list is the built-in defaults (.git/, .DS_Store,
\* node_modules/ and the output file name among them), then the rules of the
\* global file, then the rules of the project file.
C10_ThreeTiers ==
  pc \in {"ignore_check", "ignore_done"} =>
    LET G == IF globalIgnore.exists THEN ParseLines(globalIgnore.lines) ELSE << >>
        P == IF projIgnore.exists THEN ParseLines(projIgnore.lines) ELSE << >>
        n == Len(ignore_rules) - Len(G) - Len(P)
    IN  /\ n >= 0
        /\ SubSeq(ignore_rules, n + 1, Len(ignore_rules)) = G \o P
        /\ LET D == SubSeq(ignore_rules, 1, n)
           IN  /\ HasRule(D, Name_git, TRUE)
               /\ HasRule(D, Name_DS_Store, FALSE)
               /\ HasRule(D, Name_node_modules, TRUE)
               /\ HasRule(D, OutputName, FALSE)

-----------------------------------------------------------------------------
(* Disk, tree nodes and the walker *)

NODE_TYPE_FILE      == 0
NODE_TYPE_DIRECTORY == 1

MAX_PATH_LEN == 4096

MaxMtime == 2         \* latest modification time of a disk entry
MaxRuns == 2          \* runs of the program in one behaviour
MaxEnvSteps == 2      \* changes made to the disk from outside the program in one behaviour

\* the target directory, as the program's argument resolves it
TargetDir == << "/", "p" >>

\* A disk entry is a record [name, is_dir, mtime, bytes, entries, no_stat,
\* no_open]; the entries of a directory are listed in the order readdir
\* returns them. no_stat: stat of the entry fails; no_open: opendir of the
\* directory fails.
DiskFile(name, mtime, bytes) ==
  [name |-> name, is_dir |-> FALSE, mtime |-> mtime, bytes |-> bytes, entries |-> << >>,
   no_stat |-> FALSE, no_open |-> FALSE]

DiskDir(name, mtime, entries) ==
  [name |-> name, is_dir |-> TRUE, mtime |-> mtime, bytes |-> << >>, entries |-> entries,
   no_stat |-> FALSE, no_open |-> FALSE]

platform_join_paths(base_path, component) ==
  IF base_path # << >> /\ base_path[Len(base_path)] # SEP
     /\ (component = << >> \/ component[1] # SEP)
  THEN base_path \o << SEP >> \o component
  ELSE base_path \o component

safe_strncpy(src, dest_size) ==
  IF Len(src) > dest_size - 1 THEN SubSeq(src, 1, dest_size - 1) ELSE src

\* the disk entry a path below the target directory names, or NULL
RECURSIVE FindEntry(_, _)
FindEntry(dir, rel) ==
  LET hit == { i \in 1..Len(dir.entries) :
                 \/ rel = dir.entries[i].name
                 \/ /\ dir.entries[i].is_dir
                    /\ StartsWith(rel, dir.entries[i].name \o << SEP >>) }
  IN  IF hit = {} THEN NULL
      ELSE LET e == dir.entries[CHOOSE i \in hit : TRUE]
           IN  IF rel = e.name THEN e
               ELSE FindEntry(e, Drop(rel, Len(e.name) + 1))

StatDisk(disk, disk_path) ==
  LET e == IF disk_path = TargetDir THEN disk
           ELSE IF StartsWith(disk_path, TargetDir \o << SEP >>)
                THEN FindEntry(disk, Drop(disk_path, Len(TargetDir) + 1))
                ELSE NULL
  IN  IF e # NULL /\ e.no_stat THEN NULL ELSE e

\* a variant that leaves content_size 0, as the create_node of src/src/utils.c
create_node_size_zero(type, relative_path_in_archive, disk_path_for_stat, disk) ==
  LET st == StatDisk(disk, disk_path_for_stat)
  IN  [ type                           |-> type,
        relative_path                  |-> safe_strncpy(relative_path_in_archive, MAX_PATH_LEN),
        disk_path                      |-> safe_strncpy(disk_path_for_stat, MAX_PATH_LEN),
        content_offset_in_data_section |-> 0,
        content_size                   |-> 0,
        last_modified_timestamp        |-> IF st # NULL THEN st.mtime ELSE 0,
        num_children                   |-> 0,
        children                       |-> << >>,
        generated_id_for_llm           |-> << >> ]

create_node(type, relative_path_in_archive, disk_path_for_stat, disk) ==
  LET st == StatDisk(disk, disk_path_for_stat)
  IN  [ type                           |-> type,
        relative_path                  |-> safe_strncpy(relative_path_in_archive, MAX_PATH_LEN),
        disk_path                      |-> safe_strncpy(disk_path_for_stat, MAX_PATH_LEN),
        content_offset_in_data_section |-> 0,
        content_size                   |-> IF st # NULL /\ type = NODE_TYPE_FILE
                                           THEN Len(st.bytes) ELSE 0,
        last_modified_timestamp        |-> IF st # NULL THEN st.mtime ELSE 0,
        num_children                   |-> 0,
        children                       |-> << >>,
        generated_id_for_llm           |-> << >> ]

add_child_to_parent_node(parent, child) ==
  [parent EXCEPT !.children = Append(@, child), !.num_children = @ + 1]

\* a variant that applies the ignore rules to files only and descends into
\* every directory
RECURSIVE walk_recursive_helper_descends(_, _, _, _, _, _)
walk_recursive_helper_descends(current_parent_node, current_parent_disk_path, dir, i, rules, disk) ==
  IF i > Len(dir.entries) THEN current_parent_node
  ELSE
    LET entry      == dir.entries[i]
        child_disk == platform_join_paths(current_parent_disk_path, entry.name)
        child_rel  == IF current_parent_node.relative_path = << >>
                         \/ current_parent_node.relative_path = << "." >>
                      THEN safe_strncpy(entry.name, MAX_PATH_LEN)
                      ELSE platform_join_paths(current_parent_node.relative_path, entry.name)
    IN  IF \/ entry.no_stat
           \/ ~entry.is_dir /\ should_ignore_item(child_rel, entry.name, FALSE, rules)
        THEN walk_recursive_helper_descends(current_parent_node, current_parent_disk_path,
                                            dir, i + 1, rules, disk)
        ELSE
          LET node   == create_node(IF entry.is_dir THEN NODE_TYPE_DIRECTORY
                                    ELSE NODE_TYPE_FILE, child_rel, child_disk, disk)
              walked == IF entry.is_dir /\ ~entry.no_open
                        THEN walk_recursive_helper_descends(node, child_disk, entry, 1,
                                                            rules, disk)
                        ELSE node
          IN  walk_recursive_helper_descends(
                add_child_to_parent_node(current_parent_node, walked),
                current_parent_disk_path, dir, i + 1, rules, disk)

\* walk_recursive_helper: the loop over the entries of one directory that
\* opendir opened, from entry i on; returns the parent node with its children
\* attached. An entry whose stat fails is passed over. The node of a
\* subdirectory is attached before the call that walks it, and stays attached,
\* without children, when that call fails in opendir.
RECURSIVE walk_recursive_helper(_, _, _, _, _, _)
walk_recursive_helper(current_parent_node, current_parent_disk_path, dir, i, rules, disk) ==
  IF i > Len(dir.entries) THEN current_parent_node
  ELSE
    LET entry      == dir.entries[i]
        child_disk == platform_join_paths(current_parent_disk_path, entry.name)
        child_rel  == IF current_parent_node.relative_path = << >>
                         \/ current_parent_node.relative_path = << "." >>
                      THEN safe_strncpy(entry.name, MAX_PATH_LEN)
                      ELSE platform_join_paths(current_parent_node.relative_path, entry.name)
        effective  == IF entry.is_dir /\ child_rel # << >>
                         /\ child_rel[Len(child_rel)] # SEP
                         /\ Len(child_rel) < MAX_PATH_LEN - 1
                      THEN child_rel \o << SEP >> ELSE child_rel
    IN  IF entry.no_stat \/ should_ignore_item(effective, entry.name, entry.is_dir, rules)
        THEN walk_recursive_helper(current_parent_node, current_parent_disk_path,
                                   dir, i + 1, rules, disk)
        ELSE
          LET node   == create_node(IF entry.is_dir THEN NODE_TYPE_DIRECTORY
                                    ELSE NODE_TYPE_FILE, child_rel, child_disk, disk)
              walked == IF entry.is_dir /\ ~entry.no_open
                        THEN walk_recursive_helper(node, child_disk, entry, 1, rules, disk)
                        ELSE node
          IN  walk_recursive_helper(add_child_to_parent_node(current_parent_node, walked),
                                    current_parent_disk_path, dir, i + 1, rules, disk)

walk_directory_and_build_tree(disk, rules) ==
  IF disk.no_stat \/ ~disk.is_dir \/ disk.no_open THEN NULL
  ELSE walk_recursive_helper(create_node(NODE_TYPE_DIRECTORY, << >>, TargetDir, disk),
                             TargetDir, disk, 1, rules, disk)

-----------------------------------------------------------------------------
(* writer.c: the archive is a sequence of bytes *)

\* the character codes of the characters the model's strings are made of
CharCode(c) ==
  CASE c = "/" -> 47 [] c = "." -> 46 [] c = "1" -> 49 [] c = "-" -> 45
    [] c = "_" -> 95 [] c = "*" -> 42 [] c = "!" -> 33 [] c = "C" -> 67
    [] c = "D" -> 68 [] c = "E" -> 69 [] c = "I" -> 73 [] c = "M" -> 77
    [] c = "R" -> 82 [] c = "T" -> 84 [] c = "V" -> 86 [] c = "X" -> 88
    [] c = "A" -> 65 [] c = "a" -> 97 [] c = "b" -> 98 [] c = "c" -> 99
    [] c = "d" -> 100 [] c = "e" -> 101 [] c = "f" -> 102 [] c = "g" -> 103
    [] c = "h" -> 104 [] c = "i" -> 105 [] c = "j" -> 106 [] c = "k" -> 107
    [] c = "l" -> 108 [] c = "m" -> 109 [] c = "n" -> 110 [] c = "o" -> 111
    [] c = "p" -> 112 [] c = "q" -> 113 [] c = "r" -> 114 [] c = "s" -> 115
    [] c = "t" -> 116 [] c = "u" -> 117 [] c = "v" -> 118 [] c = "w" -> 119
    [] c = "x" -> 120 [] c = "y" -> 121 [] c = "z" -> 122
    [] OTHER -> 63

CodeChar(b) ==
  CASE b = 47 -> "/" [] b = 46 -> "." [] b = 49 -> "1" [] b = 45 -> "-"
    [] b = 95 -> "_" [] b = 42 -> "*" [] b = 33 -> "!" [] b = 67 -> "C"
    [] b = 68 -> "D" [] b = 69 -> "E" [] b = 73 -> "I" [] b = 77 -> "M"
    [] b = 82 -> "R" [] b = 84 -> "T" [] b = 86 -> "V" [] b = 88 -> "X"
    [] b = 65 -> "A" [] b = 97 -> "a" [] b = 98 -> "b" [] b = 99 -> "c"
    [] b = 100 -> "d" [] b = 101 -> "e" [] b = 102 -> "f" [] b = 103 -> "g"
    [] b = 104 -> "h" [] b = 105 -> "i" [] b = 106 -> "j" [] b = 107 -> "k"
    [] b = 108 -> "l" [] b = 109 -> "m" [] b = 110 -> "n" [] b = 111 -> "o"
    [] b = 112 -> "p" [] b = 113 -> "q" [] b = 114 -> "r" [] b = 115 -> "s"
    [] b = 116 -> "t" [] b = 117 -> "u" [] b = 118 -> "v" [] b = 119 -> "w"
    [] b = 120 -> "x" [] b = 121 -> "y" [] b = 122 -> "z"
    [] OTHER -> "?"

StrBytes(str) == [i \in 1..Len(str) |-> CharCode(str[i])]

BytesStr(bytes) == [i \in 1..Len(bytes) |-> CodeChar(bytes[i])]

\* fwrite of a w-byte unsigned integer on a little-endian host
RECURSIVE LE(_, _)
LE(n, w) == IF w = 0 THEN << >> ELSE << n % 256 >> \o LE(n \div 256, w - 1)

\* fread of an unsigned integer; every value of MaxField or more reads as
\* MaxField
RECURSIVE UnLELow(_)
UnLELow(bytes) == IF bytes = << >> THEN 0 ELSE bytes[1] + 256 * UnLELow(Tail(bytes))

UnLE(bytes) ==
  IF \E i \in 4..Len(bytes) : bytes[i] # 0 THEN MaxField
  ELSE UnLELow(SubSeq(bytes, 1, IF Len(bytes) < 3 THEN Len(bytes) ELSE 3))

DIRCONTXT_FILE_SIGNATURE == << "D", "I", "R", "C", "T", "X", "T", "V", "1" >>

DIRCONTXT_SIGNATURE_LEN == 8

\* fopen and read of the file a node's disk_path names
ReadDisk(disk, disk_path) ==
  LET st == StatDisk(disk, disk_path)
  IN  IF st = NULL THEN [ok |-> FALSE, bytes |-> << >>]
      ELSE [ok |-> TRUE, bytes |-> st.bytes]

\* Pass 1: returns the node with offsets and sizes set, the data written so
\* far and the offset accumulator
RECURSIVE collect_file_data_and_update_nodes_recursive(_, _, _, _)
RECURSIVE CollectChildren(_, _, _, _, _)
CollectChildren(node, i, data_stream, acc, disk) ==
  IF i > Len(node.children) THEN [node |-> node, data |-> data_stream, acc |-> acc]
  ELSE LET r == collect_file_data_and_update_nodes_recursive(node.children[i],
                                                             data_stream, acc, disk)
       IN  CollectChildren([node EXCEPT !.children[i] = r.node], i + 1, r.data, r.acc, disk)

\* a variant that leaves the size create_node stored on a file it cannot open
collect_file_data_keeps_stat_size(node, data_stream, acc, disk) ==
  IF node.type = NODE_TYPE_FILE
  THEN LET content == ReadDisk(disk, node.disk_path)
       IN  IF ~content.ok
           THEN [node |-> [node EXCEPT !.content_offset_in_data_section = acc],
                 data |-> data_stream, acc |-> acc]
           ELSE [node |-> [node EXCEPT !.content_offset_in_data_section = acc,
                                       !.content_size = Len(content.bytes)],
                 data |-> data_stream \o content.bytes, acc |-> acc + Len(content.bytes)]
  ELSE CollectChildren(node, 1, data_stream, acc, disk)

collect_file_data_and_update_nodes_recursive(node, data_stream, acc, disk) ==
  IF node.type = NODE_TYPE_FILE
  THEN LET content == ReadDisk(disk, node.disk_path)
       IN  IF ~content.ok
           THEN [node |-> [node EXCEPT !.content_offset_in_data_section = acc,
                                       !.content_size = 0],
                 data |-> data_stream, acc |-> acc]
           ELSE [node |-> [node EXCEPT !.content_offset_in_data_section = acc,
                                       !.content_size = Len(content.bytes)],
                 data |-> data_stream \o content.bytes, acc |-> acc + Len(content.bytes)]
  ELSE CollectChildren(node, 1, data_stream, acc, disk)

serialize_single_node(node) ==
  LET path_len == Len(node.relative_path) % 65536
  IN  << node.type % 256 >>
      \o LE(path_len, 2)
      \o StrBytes(SubSeq(node.relative_path, 1, path_len))
      \o LE(node.last_modified_timestamp, 8)
      \o (IF node.type = NODE_TYPE_FILE
          THEN LE(node.content_offset_in_data_section, 8) \o LE(node.content_size, 8)
          ELSE IF node.type = NODE_TYPE_DIRECTORY
               THEN LE(node.num_children, 4)
               ELSE << >>)

RECURSIVE serialize_header_recursive(_)
RECURSIVE SerializeChildren(_, _)
SerializeChildren(node, i) ==
  IF i > node.num_children \/ i > Len(node.children) THEN << >>
  ELSE serialize_header_recursive(node.children[i]) \o SerializeChildren(node, i + 1)

serialize_header_recursive(node) ==
  serialize_single_node(node)
  \o (IF node.type = NODE_TYPE_DIRECTORY THEN SerializeChildren(node, 1) ELSE << >>)

\* a variant that appends the number of the run to the file
write_dircontxt_file_stamped(root_node, disk) ==
  LET pass1  == collect_file_data_and_update_nodes_recursive(root_node, << >>, 0, disk)
      header == serialize_header_recursive(pass1.node)
  IN  [ bytes |-> StrBytes(SubSeq(DIRCONTXT_FILE_SIGNATURE, 1, DIRCONTXT_SIGNATURE_LEN))
                  \o header \o pass1.data \o << hist.runs >>,
        tree  |-> pass1.node,
        header_len |-> Len(header) ]

\* write_dircontxt_file: the bytes of the output file and the tree as pass 1
\* leaves it
write_dircontxt_file(root_node, disk) ==
  LET pass1  == collect_file_data_and_update_nodes_recursive(root_node, << >>, 0, disk)
      header == serialize_header_recursive(pass1.node)
  IN  [ bytes |-> StrBytes(SubSeq(DIRCONTXT_FILE_SIGNATURE, 1, DIRCONTXT_SIGNATURE_LEN))
                  \o header \o pass1.data,
        tree  |-> pass1.node,
        header_len |-> Len(header) ]

-----------------------------------------------------------------------------
(* dctx_reader.c *)

ReadFail == [ok |-> FALSE, node |-> NULL, pos |-> 0]

\* fread of n bytes at position pos (0-based offset into the file)
CanRead(bytes, pos, n) == pos + n <= Len(bytes)

Fread(bytes, pos, n) == SubSeq(bytes, pos + 1, pos + n)

read_single_node_metadata(bytes, pos) ==
  IF ~CanRead(bytes, pos, 1) THEN ReadFail
  ELSE
    LET type == bytes[pos + 1]
    IN  IF ~CanRead(bytes, pos + 1, 2) THEN ReadFail
        ELSE
          LET path_len == UnLE(Fread(bytes, pos + 1, 2))
              p1       == pos + 3
          IN  IF path_len > MAX_PATH_LEN - 1 THEN ReadFail
              ELSE IF ~CanRead(bytes, p1, path_len) THEN ReadFail
              ELSE IF ~CanRead(bytes, p1 + path_len, 8) THEN ReadFail
              ELSE
                LET path == BytesStr(Fread(bytes, p1, path_len))
                    ts   == UnLE(Fread(bytes, p1 + path_len, 8))
                    p2   == p1 + path_len + 8
                    base == [ type |-> type, relative_path |-> path,
                              disk_path |-> << >>,
                              content_offset_in_data_section |-> 0,
                              content_size |-> 0,
                              last_modified_timestamp |-> ts,
                              num_children |-> 0, children |-> << >>,
                              generated_id_for_llm |-> << >> ]
                IN  IF type = NODE_TYPE_FILE
                    THEN IF ~CanRead(bytes, p2, 16) THEN ReadFail
                         ELSE [ok |-> TRUE, pos |-> p2 + 16,
                               node |-> [base EXCEPT
                                 !.content_offset_in_data_section = UnLE(Fread(bytes, p2, 8)),
                                 !.content_size = UnLE(Fread(bytes, p2 + 8, 8))]]
                    ELSE IF type = NODE_TYPE_DIRECTORY
                    THEN IF ~CanRead(bytes, p2, 4) THEN ReadFail
                         ELSE [ok |-> TRUE, pos |-> p2 + 4,
                               node |-> [base EXCEPT
                                 !.num_children = UnLE(Fread(bytes, p2, 4))]]
                    ELSE ReadFail

\* the loop of read_children_for_directory_node from child i on
RECURSIVE read_children_for_directory_node(_, _, _, _)
read_children_for_directory_node(bytes, pos, parent_dir_node, i) ==
  IF i > parent_dir_node.num_children
  THEN [ok |-> TRUE, node |-> parent_dir_node, pos |-> pos]
  ELSE
    LET child == read_single_node_metadata(bytes, pos)
    IN  IF ~child.ok THEN ReadFail
        ELSE
          LET sub == IF child.node.type = NODE_TYPE_DIRECTORY
                     THEN read_children_for_directory_node(bytes, child.pos, child.node, 1)
                     ELSE child
          IN  IF ~sub.ok THEN ReadFail
              ELSE read_children_for_directory_node(
                     bytes, sub.pos,
                     [parent_dir_node EXCEPT !.children = Append(@, sub.node)], i + 1)

\* the header that follows the signature: root record, then its descendants
ParseHeader(bytes) ==
  LET root == read_single_node_metadata(bytes, DIRCONTXT_SIGNATURE_LEN)
  IN  IF ~root.ok THEN ReadFail
      ELSE IF root.node.type # NODE_TYPE_DIRECTORY THEN ReadFail
      ELSE read_children_for_directory_node(bytes, root.pos, root.node, 1)

\* a C string: the characters before the first NUL
RECURSIVE CString(_)
CString(bytes) ==
  IF bytes = << >> \/ bytes[1] = 0 THEN << >>
  ELSE << bytes[1] >> \o CString(Tail(bytes))

\* the result of dctx_read_and_parse_header on a file: [ok, tree, data_offset]
dctx_read_and_parse_header(file) ==
  LET failed == [ok |-> FALSE, tree |-> NULL, data_offset |-> 0]
  IN  IF ~file.exists THEN failed
      ELSE IF ~CanRead(file.bytes, 0, DIRCONTXT_SIGNATURE_LEN) THEN failed
      ELSE
        LET signature_buf == CString(Fread(file.bytes, 0, DIRCONTXT_SIGNATURE_LEN))
        IN  IF signature_buf # StrBytes(DIRCONTXT_FILE_SIGNATURE) THEN failed
            ELSE LET h == ParseHeader(file.bytes)
                 IN  IF ~h.ok THEN failed
                     ELSE [ok |-> TRUE, tree |-> h.node, data_offset |-> h.pos]

-----------------------------------------------------------------------------
(* dctx_reader.c and utils.c: the nodes the header parse allocates and frees.
   A node is named by the offset of its record in the file. *)

HeapNode(id, node) ==
  [id |-> id, type |-> node.type, num_children |-> node.num_children, kids |-> << >>]

\* free_tree_recursive: the nodes it frees, children first, when every
\* pointer it follows reads as the node it pointed to
RECURSIVE free_tree_recursive(_)
RECURSIVE FreeKids(_, _)
FreeKids(kids, i) ==
  IF i > Len(kids) THEN << >>
  ELSE free_tree_recursive(kids[i]) \o FreeKids(kids, i + 1)

free_tree_recursive(node) ==
  (IF node.type = NODE_TYPE_DIRECTORY THEN FreeKids(node.kids, 1) ELSE << >>)
  \o << node.id >>

RECURSIVE HeapIds(_)
HeapIds(node) ==
  {node.id} \cup UNION { HeapIds(node.kids[i]) : i \in 1..Len(node.kids) }

\* read_children_for_directory_node with its allocations: the parent as
\* built so far and the nodes the failure path has freed. When child i
\* cannot be read the children before it are freed and their pointers stay
\* in the parent's array; a failure below child i returns at once, child i
\* attached.
RECURSIVE read_children_freeing(_, _, _, _)
read_children_freeing(bytes, pos, parent_dir_node, i) ==
  IF i > parent_dir_node.num_children
  THEN [ok |-> TRUE, node |-> parent_dir_node, pos |-> pos, freed |-> << >>]
  ELSE
    LET child == read_single_node_metadata(bytes, pos)
    IN  IF ~child.ok
        THEN [ok |-> FALSE, node |-> parent_dir_node, pos |-> pos,
              freed |-> FreeKids(parent_dir_node.kids, 1)]
        ELSE
          LET child_node == HeapNode(pos, child.node)
              sub == IF child_node.type = NODE_TYPE_DIRECTORY
                     THEN read_children_freeing(bytes, child.pos, child_node, 1)
                     ELSE [ok |-> TRUE, node |-> child_node, pos |-> child.pos,
                           freed |-> << >>]
              with == [parent_dir_node EXCEPT !.kids = Append(@, sub.node)]
          IN  IF ~sub.ok
              THEN [ok |-> FALSE, node |-> with, pos |-> sub.pos, freed |-> sub.freed]
              ELSE read_children_freeing(bytes, sub.pos, with, i + 1)

\* The header parse of dctx_read_and_parse_header after the signature, with
\* its memory: the nodes allocated, the calls of free in order, whether
\* free_tree_recursive is handed a pointer to a freed node, and whether the
\* file is closed. Reading a freed node is undefined: either the memory still
\* reads as the node (intact) and the walk goes on and frees it again, or the
\* process is stopped there, before fclose.
ParseHeaderMemory(bytes, intact) ==
  LET root == read_single_node_metadata(bytes, DIRCONTXT_SIGNATURE_LEN)
      none == [ok |-> FALSE, allocated |-> {}, frees |-> << >>,
               use_after_free |-> FALSE, closed |-> TRUE]
  IN  IF ~root.ok THEN none
      ELSE IF root.node.type # NODE_TYPE_DIRECTORY
      THEN [none EXCEPT !.allocated = {DIRCONTXT_SIGNATURE_LEN},
                        !.frees = << DIRCONTXT_SIGNATURE_LEN >>]
      ELSE
        LET r == read_children_freeing(bytes, root.pos,
                                       HeapNode(DIRCONTXT_SIGNATURE_LEN, root.node), 1)
        IN  IF r.ok
            THEN [ok |-> TRUE, allocated |-> HeapIds(r.node), frees |-> << >>,
                  use_after_free |-> FALSE, closed |-> TRUE]
            ELSE IF r.freed = << >> \/ intact
            THEN [ok |-> FALSE, allocated |-> HeapIds(r.node),
                  frees |-> r.freed \o free_tree_recursive(r.node),
                  use_after_free |-> r.freed # << >>, closed |-> TRUE]
            ELSE [ok |-> FALSE, allocated |-> HeapIds(r.node), frees |-> r.freed,
                  use_after_free |-> TRUE, closed |-> FALSE]

-----------------------------------------------------------------------------
(* The directories of the model *)

FileVersions ==
  { [bytes |-> << 7 >>, mtime |-> t] : t \in 1..MaxMtime }
  \cup { [bytes |-> << 8 >>, mtime |-> MaxMtime],
         [bytes |-> << 7, 7 >>, mtime |-> MaxMtime] }

EntriesA ==
  { << >> } \cup { << DiskFile(<< "a" >>, v.mtime, v.bytes) >> : v \in FileVersions }

EntriesD ==
  { << >>,
    << DiskFile(<< "d" >>, 1, << >>) >>,
    << DiskDir(<< "d" >>, 1, << >>) >>,
    << DiskDir(<< "d" >>, 1, << DiskFile(<< "f" >>, 1, << 9 >>) >>) >> }

DiskStates == { DiskDir(<< "p" >>, 1, a \o d) : a \in EntriesA, d \in EntriesD }

-----------------------------------------------------------------------------
(* write_dircontxt_file followed by dctx_read_and_parse_header, on every
   directory of the model, the file being damaged in between or not *)

RestOfCodec ==
  /\ projIgnore = NoLines /\ globalIgnore = NoLines /\ manifest = NoManifest
  /\ diffs = {} /\ output_mode = "both" /\ old_version = << >>
  /\ new_version = << >> /\ is_update_mode = FALSE /\ old_tree = NULL
  /\ old_data_offset = 0 /\ report = NULL /\ has_actual_changes = FALSE
  /\ diff_filepath = << >> /\ exit_code = 0 /\ item = NULL /\ verdict = FALSE

InitCodec ==
  /\ pc = "codec_walk"
  /\ fs \in DiskStates
  /\ ignore_rules = load_ignore_rules(OutputName, NoLines, NoLines)
  /\ new_tree = NULL
  /\ archive = NoFile
  /\ parsed = NULL
  /\ hist = << >>
  /\ RestOfCodec

codecFrame ==
  << projIgnore, globalIgnore, manifest, diffs, output_mode, old_version,
     new_version, is_update_mode, old_tree, old_data_offset, ignore_rules,
     report, has_actual_changes, diff_filepath, exit_code, item, verdict, fs >>

CodecWrite ==
  /\ pc = "codec_walk"
  /\ LET w == write_dircontxt_file(walk_directory_and_build_tree(fs, ignore_rules), fs)
     IN  /\ new_tree' = w.tree
         /\ archive' = [exists |-> TRUE, bytes |-> w.bytes]
  /\ pc' = "codec_written"
  /\ UNCHANGED << codecFrame, parsed, hist >>

\* something outside the program cuts the file short
CodecTruncate ==
  /\ pc = "codec_written" /\ hist = << >>
  /\ \E k \in 0..(Len(archive.bytes) - 1) :
       /\ archive' = [archive EXCEPT !.bytes = SubSeq(@, 1, k)]
       /\ hist' = << "truncated" >>
  /\ UNCHANGED << codecFrame, new_tree, parsed, pc >>

\* something outside the program overwrites one byte of the file
CodecOverwrite ==
  /\ pc = "codec_written" /\ hist = << >>
  /\ \E q \in 1..Len(archive.bytes), v \in {0, 255} :
       /\ archive.bytes[q] # v
       /\ archive' = [archive EXCEPT !.bytes[q] = v]
       /\ hist' = << "overwritten" >>
  /\ UNCHANGED << codecFrame, new_tree, parsed, pc >>

CodecRead ==
  /\ pc = "codec_written"
  /\ parsed' = dctx_read_and_parse_header(archive)
  /\ pc' = "codec_done"
  /\ UNCHANGED << codecFrame, new_tree, archive, hist >>

\* the header parse that follows the signature test, on the file as it is
CodecParseHeader ==
  /\ pc = "codec_done"
  /\ \E intact \in BOOLEAN :
       hist' = Append(hist, ParseHeaderMemory(archive.bytes, intact))
  /\ pc' = "codec_parsed"
  /\ UNCHANGED << codecFrame, new_tree, archive, parsed >>

NextCodec ==
  CodecWrite \/ CodecTruncate \/ CodecOverwrite \/ CodecRead \/ CodecParseHeader

SpecCodec == InitCodec /\ [][NextCodec]_vars

\* a tree without the disk paths, which the archive does not store
RECURSIVE Archived(_)
Archived(node) ==
  [node EXCEPT !.disk_path = << >>,
               !.children = [i \in 1..Len(node.children) |-> Archived(node.children[i])]]

\* C7: reading back the file the writer produced succeeds and returns the
\* tree that was written (types, paths, timestamps, offsets, sizes, children
\* and their order), the data section starting right after the 8 signature
\* bytes and the header; serialising the tree read reproduces the header.
C7_RoundTrip ==
  (pc = "codec_done" /\ hist = << >>) =>
    /\ parsed.ok
    /\ parsed.tree = Archived(new_tree)
    /\ parsed.data_offset
         = DIRCONTXT_SIGNATURE_LEN + Len(serialize_header_recursive(new_tree))
    /\ serialize_header_recursive(parsed.tree)
         = SubSeq(archive.bytes, DIRCONTXT_SIGNATURE_LEN + 1, parsed.data_offset)

SignatureBytes == StrBytes(<< "D", "I", "R", "C", "T", "X", "T", "V" >>)

StartsWithSignature(bytes) ==
  /\ Len(bytes) >= Len(SignatureBytes)
  /\ SubSeq(bytes, 1, Len(SignatureBytes)) = SignatureBytes

\* C8: the file the writer produces starts with the 8 bytes DIRCTXTV, and
\* the reader accepts a file exactly when it starts with those 8 bytes and
\* the header after them is well formed (known node types, path lengths
\* within the limit, no short read).
C8_ReaderAccepts ==
  /\ (pc = "codec_written" /\ hist = << >>) => StartsWithSignature(archive.bytes)
  /\ pc = "codec_done" =>
       (parsed.ok <=> (StartsWithSignature(archive.bytes) /\ ParseHeader(archive.bytes).ok))

\* past the signature, the header parser inverts the serialiser
HeaderRoundTrip ==
  (pc = "codec_done" /\ hist = << >>) =>
    LET h == ParseHeader(archive.bytes)
    IN  /\ h.ok
        /\ h.node = Archived(new_tree)
        /\ h.pos = DIRCONTXT_SIGNATURE_LEN + Len(serialize_header_recursive(new_tree))
        /\ serialize_header_recursive(h.node)
             = SubSeq(archive.bytes, DIRCONTXT_SIGNATURE_LEN + 1, h.pos)

-----------------------------------------------------------------------------
(* diff.c: the structural comparison of two trees *)

EmptyReport == [has_changes |-> FALSE, entries |-> << >>]

add_change_to_report(entries, type, node) ==
  Append(entries, [ type          |-> type,
                    node_type     |-> node.type,
                    relative_path |-> safe_strncpy(node.relative_path, MAX_PATH_LEN) ])

\* a variant that finds files only
find_child_node_files_only(parent, relative_path) ==
  IF parent.type # NODE_TYPE_DIRECTORY THEN NULL
  ELSE LET hit == { i \in 1..Len(parent.children) :
                      /\ parent.children[i].relative_path = relative_path
                      /\ parent.children[i].type = NODE_TYPE_FILE }
       IN  IF hit = {} THEN NULL
           ELSE parent.children[CHOOSE i \in hit : \A j \in hit : i <= j]

\* the first child with that relative path, or NULL
find_child_node(parent, relative_path) ==
  IF parent.type # NODE_TYPE_DIRECTORY THEN NULL
  ELSE LET hit == { i \in 1..Len(parent.children) :
                      parent.children[i].relative_path = relative_path }
       IN  IF hit = {} THEN NULL
           ELSE parent.children[CHOOSE i \in hit : \A j \in hit : i <= j]

RECURSIVE compare_nodes_recursive(_, _, _)
RECURSIVE ComparePass1(_, _, _, _)
RECURSIVE ComparePass2(_, _, _, _)

\* pass 1: additions and modifications, over the children of the new node
ComparePass1(old_node, new_node, i, entries) ==
  IF i > Len(new_node.children) THEN entries
  ELSE
    LET new_child == new_node.children[i]
        old_child == find_child_node(old_node, new_child.relative_path)
    IN  IF old_child = NULL
        THEN ComparePass1(old_node, new_node, i + 1,
                          add_change_to_report(entries, "ITEM_ADDED", new_child))
        ELSE
          LET is_modified ==
                IF new_child.type # old_child.type THEN TRUE
                ELSE IF new_child.type = NODE_TYPE_FILE
                     THEN \/ new_child.content_size # old_child.content_size
                          \/ new_child.last_modified_timestamp
                               # old_child.last_modified_timestamp
                     ELSE FALSE
              e1 == IF is_modified
                    THEN add_change_to_report(entries, "ITEM_MODIFIED", new_child)
                    ELSE entries
              e2 == IF new_child.type = NODE_TYPE_DIRECTORY
                       /\ old_child.type = NODE_TYPE_DIRECTORY
                    THEN compare_nodes_recursive(old_child, new_child, e1)
                    ELSE e1
          IN  ComparePass1(old_node, new_node, i + 1, e2)

\* pass 2: removals, over the children of the old node
ComparePass2(old_node, new_node, i, entries) ==
  IF i > Len(old_node.children) THEN entries
  ELSE LET old_child == old_node.children[i]
       IN  ComparePass2(old_node, new_node, i + 1,
             IF find_child_node(new_node, old_child.relative_path) = NULL
             THEN add_change_to_report(entries, "ITEM_REMOVED", old_child)
             ELSE entries)

compare_nodes_recursive(old_node, new_node, entries) ==
  ComparePass2(old_node, new_node, 1, ComparePass1(old_node, new_node, 1, entries))

compare_trees(old_root, new_root) ==
  LET entries ==
        IF old_root = NULL /\ new_root # NULL
        THEN add_change_to_report(<< >>, "ITEM_ADDED", new_root)
        ELSE IF old_root # NULL /\ new_root = NULL
        THEN add_change_to_report(<< >>, "ITEM_REMOVED", old_root)
        ELSE IF old_root # NULL /\ new_root # NULL
        THEN compare_nodes_recursive(old_root, new_root, << >>)
        ELSE << >>
  IN  [has_changes |-> entries # << >>, entries |-> entries]

-----------------------------------------------------------------------------
(* main.c: content verification of the entries reported as modified *)

RECURSIVE find_node_by_path(_, _)
RECURSIVE FindInChildren(_, _, _)
FindInChildren(root, path, i) ==
  IF i > Len(root.children) THEN NULL
  ELSE
    LET child_path == root.children[i].relative_path
        found == IF StartsWith(path, child_path)
                    /\ (Len(path) = Len(child_path) \/ path[Len(child_path) + 1] = SEP)
                 THEN find_node_by_path(root.children[i], path)
                 ELSE NULL
    IN  IF found # NULL THEN found ELSE FindInChildren(root, path, i + 1)

find_node_by_path(root, path) ==
  IF root = NULL THEN NULL
  ELSE IF root.relative_path = path THEN root
  ELSE IF root.type = NODE_TYPE_DIRECTORY THEN FindInChildren(root, path, 1)
  ELSE NULL

\* compares old_node.content_size bytes of the disk file with the bytes of
\* the archive at dctx_data_offset + the old node's offset
files_content_identical(disk, disk_path, dctx_file, dctx_data_offset, old_node) ==
  LET on_disk    == ReadDisk(disk, disk_path)
      abs_offset == dctx_data_offset + old_node.content_offset_in_data_section
      size       == old_node.content_size
  IN  IF ~on_disk.ok \/ ~dctx_file.exists THEN FALSE
      ELSE IF size = 0 THEN TRUE
      ELSE /\ Len(on_disk.bytes) >= size
           /\ Len(dctx_file.bytes) >= abs_offset + size
           /\ SubSeq(on_disk.bytes, 1, size)
                = SubSeq(dctx_file.bytes, abs_offset + 1, abs_offset + size)

KeepEntry(entry, old_root, new_root, disk, dctx_file, dctx_data_offset) ==
  IF entry.type = "ITEM_MODIFIED" /\ entry.node_type = NODE_TYPE_FILE
  THEN LET new_node == find_node_by_path(new_root, entry.relative_path)
           old_node == find_node_by_path(old_root, entry.relative_path)
       IN  IF new_node # NULL /\ old_node # NULL
           THEN IF new_node.content_size = old_node.content_size
                THEN ~files_content_identical(disk, new_node.disk_path, dctx_file,
                                              dctx_data_offset, old_node)
                ELSE TRUE
           ELSE TRUE
  ELSE TRUE

\* a variant that compacts the entries and leaves has_changes as it was
filter_false_positives_stale_flag(rep, old_root, new_root, disk, dctx_file, dctx_data_offset) ==
  IF rep = NULL \/ rep.entries = << >> THEN rep
  ELSE LET kept == SelectSeq(rep.entries,
                     LAMBDA e : KeepEntry(e, old_root, new_root, disk,
                                          dctx_file, dctx_data_offset))
       IN  [has_changes |-> rep.has_changes, entries |-> kept]

filter_false_positives(rep, old_root, new_root, disk, dctx_file, dctx_data_offset) ==
  IF rep = NULL \/ rep.entries = << >> THEN rep
  ELSE LET kept == SelectSeq(rep.entries,
                     LAMBDA e : KeepEntry(e, old_root, new_root, disk,
                                          dctx_file, dctx_data_offset))
       IN  [has_changes |-> kept # << >>, entries |-> kept]

-----------------------------------------------------------------------------
(* version.c and main.c: the artifacts and their names *)

VERSION_HEADER_PREFIX ==
  << "[", "D", "I", "R", "C", "O", "N", "T", "X", "T", "_", "L", "L", "M", "_",
     "S", "N", "A", "P", "S", "H", "O", "T", "_" >>

VERSION_HEADER_SUFFIX == << "]" >>

VersionBufferSize == 32

\* the index of the first occurrence of character c in s, or 0
FirstIndex(s, c) ==
  IF Contains(s, c) THEN CHOOSE i \in 1..Len(s) : s[i] = c /\ \A j \in 1..(i - 1) : s[j] # c
  ELSE 0

\* the version token on the first line of the manifest: [ok, version]
parse_version_from_file(file) ==
  LET failed == [ok |-> FALSE, version |-> << >>]
  IN  IF ~file.exists THEN failed
      ELSE IF ~StartsWith(file.line, VERSION_HEADER_PREFIX) THEN failed
      ELSE LET version_start == Drop(file.line, Len(VERSION_HEADER_PREFIX))
               version_end   == FirstIndex(version_start, VERSION_HEADER_SUFFIX[1])
           IN  IF version_end = 0 THEN failed
               ELSE [ok |-> TRUE,
                     version |-> safe_strncpy(SubSeq(version_start, 1, version_end - 1),
                                              VersionBufferSize)]

\* determine_output_filepaths: the diff file is named after the version, and
\* has no name when the version has no dot
DiffFilepath(version_string) ==
  IF Contains(version_string, ".") THEN version_string ELSE << >>

file_exists(filepath, files) == filepath # << >> /\ filepath \in files

-----------------------------------------------------------------------------
(* main.c: one run of the program is the sequence LoadPreviousState,
   ScanDirectory, CompareAndVersion, WriteArchive, GenerateOutputs; between
   runs the directory and the artifacts next to it change from outside. *)

EXIT_SUCCESS == 0
EXIT_FAILURE == 1

OutputModes == {"both", "text_only", "binary_only"}

ManifestLine(version) == VERSION_HEADER_PREFIX \o version \o VERSION_HEADER_SUFFIX

\* manifests found on disk that no run of this program wrote
ForeignManifests ==
  { [exists |-> TRUE, line |-> ManifestLine(V1)],
    [exists |-> TRUE, line |-> ManifestLine(<< "V", "1", ".", "3" >>)],
    [exists |-> TRUE, line |-> << "x" >>] }

\* diff files found on disk before a run, by the version in their name
StaleDiffs == { << "V", "1", ".", "1" >>, << "V", "1", ".", "4" >> }

\* lengths to which an archive is cut from outside
CutLengths == {0, 4, 12}

ProjectIgnoreFiles == { NoLines, [exists |-> TRUE, lines |-> << << "d", "/" >> >>] }

NoWrite == [ok |-> FALSE, version |-> << >>]

\* the directory as the first run of a behaviour finds it
InitialDisks ==
  { DiskDir(<< "p" >>, 1, << >>),
    DiskDir(<< "p" >>, 1,
            << DiskFile(<< "a" >>, 1, << 7 >>),
               DiskDir(<< "d" >>, 1, << DiskFile(<< "f" >>, 1, << 9 >>) >>) >>) }

\* a variant that keeps the old version string when not in update mode
SnapshotVersion_keepsOld(update_mode, changes, old) ==
  IF update_mode /\ changes THEN calculate_next_version(old)
  ELSE safe_strncpy(old, VersionBufferSize)

\* the version of the snapshot (main.c, "Calculate Version String")
SnapshotVersion(update_mode, changes, old) ==
  IF update_mode
  THEN IF changes THEN calculate_next_version(old)
       ELSE safe_strncpy(old, VersionBufferSize)
  ELSE safe_strncpy(V1, VersionBufferSize)

Init ==
  /\ pc = "idle"
  /\ fs \in InitialDisks
  /\ projIgnore \in ProjectIgnoreFiles
  /\ globalIgnore = NoLines
  /\ output_mode \in OutputModes
  /\ archive = NoFile /\ manifest = NoManifest /\ diffs = {}
  /\ old_version = << >> /\ new_version = << >>
  /\ is_update_mode = FALSE /\ old_tree = NULL /\ old_data_offset = 0
  /\ ignore_rules = << >> /\ new_tree = NULL /\ report = NULL
  /\ has_actual_changes = FALSE /\ diff_filepath = << >>
  /\ exit_code = EXIT_SUCCESS
  /\ item = NULL /\ verdict = FALSE /\ parsed = NULL
  /\ hist = [ runs       |-> 0,        \* runs completed
              env        |-> 0,        \* changes made from outside
              quiet      |-> FALSE,    \* a run completed and nothing changed since
              prev_quiet |-> FALSE,    \* quiet, when the current run started
              start      |-> [manifest |-> NoManifest, archive |-> NoFile, diffs |-> {}],
              emitted    |-> {},       \* diff files the current run wrote
              wrote      |-> NoWrite,  \* the manifest version the current run wrote
              prev_wrote |-> NoWrite,  \* the same, for the run before
              failed     |-> "no" ]    \* where the write of the run that just ended failed

unusedVars == << globalIgnore, item, verdict >>

\* 2. Load Previous State
LoadPreviousState ==
  /\ pc = "idle" /\ hist.runs < MaxRuns
  /\ LET both == manifest.exists /\ archive.exists
         pv   == parse_version_from_file(manifest)
         rd   == dctx_read_and_parse_header(archive)
     IN  /\ old_version' = IF both THEN (IF pv.ok THEN pv.version
                                         ELSE safe_strncpy(V1, VersionBufferSize))
                           ELSE << >>
         /\ is_update_mode' = (both /\ rd.ok)
         /\ old_tree' = IF both /\ rd.ok THEN rd.tree ELSE NULL
         /\ old_data_offset' = IF both /\ rd.ok THEN rd.data_offset ELSE 0
         /\ parsed' = IF both THEN rd ELSE NULL
  /\ new_version' = << >> /\ diff_filepath' = DiffFilepath(<< >>)
  /\ ignore_rules' = << >> /\ new_tree' = NULL /\ report' = NULL
  /\ has_actual_changes' = FALSE /\ exit_code' = EXIT_SUCCESS
  /\ hist' = [hist EXCEPT !.quiet = FALSE, !.prev_quiet = hist.quiet,
                          !.start = [manifest |-> manifest, archive |-> archive,
                                     diffs |-> diffs],
                          !.emitted = {}, !.wrote = NoWrite,
                          !.prev_wrote = hist.wrote, !.failed = "no"]
  /\ pc' = "scan"
  /\ UNCHANGED << diskVars, unusedVars >>

\* 3. Scan Current Directory State
ScanDirectory ==
  /\ pc = "scan"
  /\ ignore_rules' = load_ignore_rules(OutputName, projIgnore, globalIgnore)
  /\ new_tree' = walk_directory_and_build_tree(fs, ignore_rules')
  /\ pc' = "compare"
  /\ UNCHANGED << diskVars, old_version, new_version, is_update_mode, old_tree,
                  old_data_offset, report, has_actual_changes, diff_filepath,
                  exit_code, item, verdict, parsed, hist >>

\* 4. Compare and Determine Next Version
CompareAndVersion ==
  /\ pc = "compare"
  /\ LET compared == compare_trees(old_tree, new_tree)
         filtered == IF compared.has_changes
                     THEN filter_false_positives(compared, old_tree, new_tree, fs,
                                                 archive, old_data_offset)
                     ELSE compared
         changes  == IF is_update_mode /\ old_tree # NULL
                     THEN filtered.has_changes ELSE TRUE
     IN  /\ report' = IF is_update_mode /\ old_tree # NULL THEN filtered ELSE NULL
         /\ has_actual_changes' = changes
         /\ new_version' = SnapshotVersion(is_update_mode, changes, old_version)
         /\ old_version' = IF is_update_mode THEN old_version
                           ELSE safe_strncpy(V1, VersionBufferSize)
         /\ diff_filepath' = DiffFilepath(new_version')
  /\ pc' = "write"
  /\ UNCHANGED << diskVars, is_update_mode, old_tree, old_data_offset,
                  ignore_rules, new_tree, exit_code, item, verdict, parsed, hist >>

\* 5. Overwrite Binary Archive
WriteArchive ==
  /\ pc = "write"
  /\ LET w == write_dircontxt_file(new_tree, fs)
     IN  /\ archive' = [exists |-> TRUE, bytes |-> w.bytes]
         /\ new_tree' = w.tree
  /\ pc' = "outputs"
  /\ UNCHANGED << fs, projIgnore, globalIgnore, manifest, diffs, output_mode,
                  old_version, new_version, is_update_mode, old_tree,
                  old_data_offset, ignore_rules, report, has_actual_changes,
                  diff_filepath, exit_code, item, verdict, parsed, hist >>

\* a variant in which main goes on to step 6 when write_dircontxt_file
\* returns false
WriteArchiveFails_goes_on ==
  /\ pc = "write" /\ hist.env < MaxEnvSteps
  /\ LET w == write_dircontxt_file(new_tree, fs)
     IN  \/ /\ archive' = archive
            /\ hist' = [hist EXCEPT !.env = @ + 1, !.failed = "before_open"]
         \/ \E k \in CutLengths \cup {Len(w.bytes)} :
              /\ k <= Len(w.bytes)
              /\ archive' = [exists |-> TRUE, bytes |-> SubSeq(w.bytes, 1, k)]
              /\ hist' = [hist EXCEPT !.env = @ + 1, !.failed = "after_open"]
  /\ pc' = "outputs"
  /\ UNCHANGED << fs, projIgnore, globalIgnore, manifest, diffs, output_mode,
                  old_version, new_version, is_update_mode, old_tree,
                  old_data_offset, ignore_rules, new_tree, report,
                  has_actual_changes, diff_filepath, exit_code, item, verdict, parsed >>

\* 5. Overwrite Binary Archive, write_dircontxt_file returning false: a
\* temporary file cannot be made or written (the output file is not opened),
\* or the output file is opened, which empties it, and a write to it or its
\* fclose fails.
\* main sets EXIT_FAILURE and goes to cleanup.
WriteArchiveFails ==
  /\ pc = "write" /\ hist.env < MaxEnvSteps
  /\ LET w == write_dircontxt_file(new_tree, fs)
     IN  \/ /\ archive' = archive
            /\ hist' = [hist EXCEPT !.env = @ + 1, !.runs = @ + 1,
                                    !.failed = "before_open"]
         \/ \E k \in CutLengths \cup {Len(w.bytes)} :
              /\ k <= Len(w.bytes)
              /\ archive' = [exists |-> TRUE, bytes |-> SubSeq(w.bytes, 1, k)]
              /\ hist' = [hist EXCEPT !.env = @ + 1, !.runs = @ + 1,
                                      !.failed = "after_open"]
  /\ exit_code' = EXIT_FAILURE
  /\ pc' = "idle"
  /\ UNCHANGED << fs, projIgnore, globalIgnore, manifest, diffs, output_mode,
                  old_version, new_version, is_update_mode, old_tree,
                  old_data_offset, ignore_rules, new_tree, report,
                  has_actual_changes, diff_filepath, item, verdict, parsed >>

\* 6. Generate Outputs (Diff and Context)
GenerateOutputs ==
  /\ pc = "outputs"
  /\ LET for_diff == dctx_read_and_parse_header(archive)
         for_llm  == dctx_read_and_parse_header(archive)
         diff_written ==
           has_actual_changes /\ is_update_mode /\ for_diff.ok /\ diff_filepath # << >>
         diff_removed ==
           ~has_actual_changes /\ is_update_mode /\ file_exists(diff_filepath, diffs)
         text == output_mode # "binary_only"
     IN  /\ diffs' = IF diff_written THEN diffs \cup {diff_filepath}
                     ELSE IF diff_removed THEN diffs \ {diff_filepath}
                     ELSE diffs
         /\ manifest' = IF ~text THEN NoManifest
                        ELSE IF for_llm.ok
                             THEN [exists |-> TRUE, line |-> ManifestLine(new_version)]
                             ELSE manifest
         /\ exit_code' = IF text /\ ~for_llm.ok THEN EXIT_FAILURE ELSE exit_code
         /\ parsed' = IF text THEN for_llm ELSE parsed
         /\ hist' = [hist EXCEPT !.runs = @ + 1, !.quiet = TRUE,
                                 !.emitted = IF diff_written THEN {diff_filepath} ELSE {},
                                 !.wrote = IF text /\ for_llm.ok
                                           THEN [ok |-> TRUE, version |-> new_version]
                                           ELSE NoWrite]
  /\ pc' = "idle"
  /\ UNCHANGED << fs, projIgnore, globalIgnore, archive, output_mode, old_version,
                  new_version, is_update_mode, old_tree, old_data_offset,
                  ignore_rules, new_tree, report, has_actual_changes,
                  diff_filepath, item, verdict >>

runVars ==
  << old_version, new_version, is_update_mode, old_tree, old_data_offset,
     ignore_rules, new_tree, report, has_actual_changes, diff_filepath,
     exit_code, item, verdict, parsed, pc >>

Outside == pc = "idle" /\ hist.env < MaxEnvSteps

Disturbed == [hist EXCEPT !.env = @ + 1, !.quiet = FALSE, !.failed = "no"]

\* files of the directory are edited, touched, added or removed
ChangeDirectory ==
  /\ Outside
  /\ fs' \in DiskStates \ {fs}
  /\ hist' = Disturbed
  /\ UNCHANGED << projIgnore, globalIgnore, archive, manifest, diffs, output_mode, runVars >>

PlaceManifest ==
  /\ Outside
  /\ manifest' \in ForeignManifests \ {manifest}
  /\ hist' = Disturbed
  /\ UNCHANGED << fs, projIgnore, globalIgnore, archive, diffs, output_mode, runVars >>

RemoveManifest ==
  /\ Outside /\ manifest.exists
  /\ manifest' = NoManifest
  /\ hist' = Disturbed
  /\ UNCHANGED << fs, projIgnore, globalIgnore, archive, diffs, output_mode, runVars >>

CutArchive ==
  /\ Outside /\ archive.exists
  /\ \E k \in CutLengths :
       /\ k < Len(archive.bytes)
       /\ archive' = [archive EXCEPT !.bytes = SubSeq(@, 1, k)]
  /\ hist' = Disturbed
  /\ UNCHANGED << fs, projIgnore, globalIgnore, manifest, diffs, output_mode, runVars >>

RemoveArchive ==
  /\ Outside /\ archive.exists
  /\ archive' = NoFile
  /\ hist' = Disturbed
  /\ UNCHANGED << fs, projIgnore, globalIgnore, manifest, diffs, output_mode, runVars >>

PlaceDiff ==
  /\ Outside
  /\ \E v \in StaleDiffs \ diffs : diffs' = diffs \cup {v}
  /\ hist' = Disturbed
  /\ UNCHANGED << fs, projIgnore, globalIgnore, archive, manifest, output_mode, runVars >>

Next ==
  \/ LoadPreviousState \/ ScanDirectory \/ CompareAndVersion
  \/ WriteArchive \/ WriteArchiveFails \/ GenerateOutputs
  \/ ChangeDirectory \/ PlaceManifest \/ RemoveManifest
  \/ CutArchive \/ RemoveArchive \/ PlaceDiff

Spec == Init /\ [][Next]_vars

-----------------------------------------------------------------------------
(* What the runs are expected to do *)

\* a run has just completed
RunDone == pc = "idle" /\ hist.quiet

BothAtStart == hist.start.manifest.exists /\ hist.start.archive.exists

\* the prior archive as a reader of the documented format sees it
PriorArchive ==
  LET bytes == hist.start.archive.bytes
      h     == ParseHeader(bytes)
  IN  IF hist.start.archive.exists /\ StartsWithSignature(bytes) /\ h.ok
      THEN [ok |-> TRUE, tree |-> h.node, data_offset |-> h.pos]
      ELSE [ok |-> FALSE, tree |-> NULL, data_offset |-> 0]

\* the version on the prior manifest, V1 when it has none
PriorVersion ==
  LET pv == parse_version_from_file(hist.start.manifest)
  IN  IF pv.ok THEN pv.version ELSE V1

\* the structural differences between the prior archive and the directory
PriorDifferences == compare_trees(PriorArchive.tree, new_tree)

\* the differences that survive content verification
SurvivingDifferences ==
  IF PriorDifferences.has_changes
  THEN filter_false_positives(PriorDifferences, PriorArchive.tree, new_tree, fs,
                              hist.start.archive, PriorArchive.data_offset)
  ELSE PriorDifferences

\* C1: the second of two runs in succession on an unchanged directory (no
\* change to the directory, the ignore rules or the artifacts in between,
\* output mode not binary-only) leaves on the manifest the version token the
\* first run wrote, and emits no diff file.
C1_SecondRunKeepsVersion ==
  (RunDone /\ hist.runs >= 2 /\ hist.prev_quiet /\ output_mode # "binary_only") =>
    /\ hist.prev_wrote.ok
    /\ manifest.exists
    /\ parse_version_from_file(manifest) = [ok |-> TRUE, version |-> hist.prev_wrote.version]
    /\ hist.emitted = {}

\* every difference is a file of the prior archive reported as modified
OnlyFilesModified ==
  \A i \in 1..Len(PriorDifferences.entries) :
    LET e == PriorDifferences.entries[i]
    IN  /\ e.type = "ITEM_MODIFIED" /\ e.node_type = NODE_TYPE_FILE
        /\ find_node_by_path(PriorArchive.tree, e.relative_path).type = NODE_TYPE_FILE

\* C2: a run that finds both artifacts, a readable prior archive, and
\* nothing but files whose timestamps changed while their bytes equal the
\* archived ones reports no changes, keeps the version and emits no diff
\* file.
C2_TouchIsNoChange ==
  (RunDone /\ BothAtStart /\ PriorArchive.ok /\ PriorDifferences.has_changes
   /\ OnlyFilesModified /\ ~SurvivingDifferences.has_changes) =>
    /\ ~has_actual_changes
    /\ new_version = PriorVersion
    /\ hist.emitted = {}

\* the bytes the prior archive stores for a node
ArchivedBytes(node) ==
  LET from == PriorArchive.data_offset + node.content_offset_in_data_section
      have == hist.start.archive.bytes
  IN  [ok |-> Len(have) >= from + node.content_size,
       bytes |-> SubSeq(have, from + 1, from + node.content_size)]

\* filter_false_positives on its own: a file entry reported as modified is
\* dropped exactly when the sizes are equal and the bytes on disk equal the
\* archived ones; with different sizes it is kept
FilterContract ==
  (RunDone /\ BothAtStart /\ PriorArchive.ok) =>
    \A i \in 1..Len(PriorDifferences.entries) :
      LET e == PriorDifferences.entries[i]
          n == find_node_by_path(new_tree, e.relative_path)
          o == find_node_by_path(PriorArchive.tree, e.relative_path)
          dropped == \A j \in 1..Len(SurvivingDifferences.entries) :
                       SurvivingDifferences.entries[j] # e
      IN  IF e.type = "ITEM_MODIFIED" /\ e.node_type = NODE_TYPE_FILE
          THEN dropped <=> /\ n.content_size = o.content_size
                           /\ ArchivedBytes(o).ok
                           /\ ReadDisk(fs, n.disk_path).bytes = ArchivedBytes(o).bytes
          ELSE ~dropped

\* C3: a run that finds both artifacts, a readable prior archive, and a
\* difference that survives content verification computes the incremented
\* version, writes the manifest with it (unless binary-only) and writes the
\* diff file named after it; no other run writes a diff file.
C3_ChangeBumpsVersion ==
  /\ (RunDone /\ BothAtStart /\ PriorArchive.ok /\ SurvivingDifferences.has_changes) =>
       /\ new_version = calculate_next_version(PriorVersion)
       /\ output_mode # "binary_only" => hist.wrote = [ok |-> TRUE, version |-> new_version]
       /\ hist.emitted = {new_version}
       /\ new_version \in diffs
  /\ (RunDone /\ hist.emitted # {}) =>
       (BothAtStart /\ PriorArchive.ok /\ SurvivingDifferences.has_changes)

\* C5: a run is in update mode only if both the manifest and the archive
\* were on disk when it started; a run that did not find both is a fresh one:
\* no comparison is made, the version is V1 (also on any manifest it writes),
\* and it writes no diff file and removes none, whatever else was on disk.
C5_FreshUnlessBoth ==
  /\ (pc # "idle" /\ is_update_mode) => BothAtStart
  /\ (pc \in {"write", "outputs"} /\ ~BothAtStart) =>
       /\ report = NULL /\ has_actual_changes
       /\ new_version = V1 /\ diff_filepath = << >>
  /\ (RunDone /\ ~BothAtStart) =>
       /\ ~is_update_mode /\ report = NULL
       /\ new_version = V1
       /\ hist.wrote.ok => hist.wrote.version = V1
       /\ hist.emitted = {}
       /\ diffs = hist.start.diffs

\* a run that found a manifest and stale diff files, but no archive, has completed
C5_Witness ==
  /\ RunDone /\ hist.runs >= 1
  /\ hist.start.manifest.exists /\ ~hist.start.archive.exists
  /\ hist.start.diffs # {}
  /\ new_version = V1 /\ archive.exists

\* C6: when the manifest and the archive are both on disk but the archive is
\* not readable (bad signature, malformed header or short read), the run
\* makes no comparison and produces a fresh snapshot: version V1, no diff
\* file, the manifest written with V1 unless binary-only, and the run
\* succeeds.
C6_UnreadableArchiveIsFresh ==
  (RunDone /\ BothAtStart /\ ~PriorArchive.ok) =>
    /\ report = NULL
    /\ new_version = V1
    /\ hist.emitted = {}
    /\ exit_code = EXIT_SUCCESS
    /\ output_mode # "binary_only" => hist.wrote = [ok |-> TRUE, version |-> V1]

-----------------------------------------------------------------------------
(* llm_formatter.c: the manifest, the content blocks and the diff file *)

GeneratedIdSize == 20

ROOT == << "R", "O", "O", "T" >>

\* printf("%03d")
Pad3(n) ==
  LET d == IntToStr(n)
  IN  IF Len(d) >= 3 THEN d ELSE [i \in 1..(3 - Len(d)) |-> "0"] \o d

\* snprintf of an ID into generated_id_for_llm
GeneratedId(letter, n) == safe_strncpy(<< letter >> \o Pad3(n), GeneratedIdSize)

\* tolower() on the letters
ToLower(c) ==
  CASE c = "A" -> "a" [] c = "B" -> "b" [] c = "C" -> "c" [] c = "D" -> "d"
    [] c = "E" -> "e" [] c = "F" -> "f" [] c = "G" -> "g" [] c = "H" -> "h"
    [] c = "I" -> "i" [] c = "J" -> "j" [] c = "K" -> "k" [] c = "L" -> "l"
    [] c = "M" -> "m" [] c = "N" -> "n" [] c = "O" -> "o" [] c = "P" -> "p"
    [] c = "Q" -> "q" [] c = "R" -> "r" [] c = "S" -> "s" [] c = "T" -> "t"
    [] c = "U" -> "u" [] c = "V" -> "v" [] c = "W" -> "w" [] c = "X" -> "x"
    [] c = "Y" -> "y" [] c = "Z" -> "z"
    [] OTHER -> c

\* strrchr(path, '.'): the path from its last '.' on, or NULL
RECURSIVE LastDot(_)
LastDot(path) ==
  IF path = << >> THEN [ok |-> FALSE, ext |-> << >>]
  ELSE LET later == LastDot(Tail(path))
       IN  IF later.ok THEN later
           ELSE IF path[1] = "." THEN [ok |-> TRUE, ext |-> path]
           ELSE later

binary_exts ==
  { << ".", "p", "n", "g" >>, << ".", "j", "p", "g" >>,
    << ".", "j", "p", "e", "g" >>, << ".", "g", "i", "f" >>,
    << ".", "b", "m", "p" >>, << ".", "i", "c", "o" >>,
    << ".", "t", "i", "f", "f" >>, << ".", "m", "p", "3" >>,
    << ".", "w", "a", "v" >>, << ".", "f", "l", "a", "c" >>,
    << ".", "o", "g", "g" >>, << ".", "m", "p", "4" >>,
    << ".", "m", "o", "v" >>, << ".", "a", "v", "i" >>,
    << ".", "m", "k", "v" >>, << ".", "p", "d", "f" >>,
    << ".", "z", "i", "p" >>, << ".", "g", "z" >>, << ".", "t", "a", "r" >>,
    << ".", "r", "a", "r" >>, << ".", "7", "z" >>, << ".", "b", "z", "2" >>,
    << ".", "e", "x", "e" >>, << ".", "d", "l", "l" >>, << ".", "s", "o" >>,
    << ".", "d", "y", "l", "i", "b" >>, << ".", "o" >>, << ".", "a" >>,
    << ".", "l", "i", "b" >>, << ".", "b", "i", "n" >>,
    << ".", "d", "a", "t" >>, << ".", "i", "s", "o" >>,
    << ".", "i", "m", "g" >>, << ".", "c", "l", "a", "s", "s" >>,
    << ".", "j", "a", "r" >>, << ".", "p", "y", "c" >>,
    << ".", "s", "q", "l", "i", "t", "e" >>, << ".", "d", "b" >> }

\* isprint() or isspace() of a byte
IsPrintOrSpace(b) == (b >= 32 /\ b <= 126) \/ (b >= 9 /\ b <= 13)

\* is_likely_binary; has_buffer is false where the caller passes no buffer
is_likely_binary(has_buffer, buffer, path_for_ext_check) ==
  LET dot       == LastDot(path_for_ext_check)
      check_len == IF Len(buffer) < 512 THEN Len(buffer) ELSE 512
      non_printable ==
        Cardinality({ i \in 1..check_len : ~IsPrintOrSpace(buffer[i]) })
  IN  \/ dot.ok /\ [i \in 1..Len(dot.ext) |-> ToLower(dot.ext[i])] \in binary_exts
      \/ /\ has_buffer /\ Len(buffer) > 0
         /\ \/ \E i \in 1..Len(buffer) : buffer[i] = 0
            \/ non_printable * 5 > check_len

\* a variant in which a file entry leaves the counter as it found it
RECURSIVE write_manifest_entry_files_uncounted(_, _, _)
RECURSIVE write_manifest_entry_recursive(_, _, _)

\* the loop of write_manifest_entry_recursive over the children of a directory
RECURSIVE ManifestChildren(_, _, _, _, _)
ManifestChildren(node, i, indent_level, entries, counter) ==
  IF i > node.num_children THEN [node |-> node, entries |-> entries, counter |-> counter]
  ELSE LET r == write_manifest_entry_recursive(node.children[i], indent_level + 1, counter)
       IN  ManifestChildren([node EXCEPT !.children[i] = r.node], i + 1, indent_level,
                            entries \o r.entries, r.counter)

write_manifest_entry_files_uncounted(node, indent_level, shared_id_counter) ==
  IF node.type = NODE_TYPE_DIRECTORY
  THEN LET id == IF indent_level = 0 THEN safe_strncpy(ROOT, GeneratedIdSize)
                 ELSE GeneratedId("D", shared_id_counter)
       IN  ManifestChildren([node EXCEPT !.generated_id_for_llm = id], 1, indent_level,
                            << [indent |-> indent_level, type |-> "D",
                                path |-> node.relative_path, id |-> id,
                                mod |-> node.last_modified_timestamp] >>,
                            IF indent_level = 0 THEN shared_id_counter
                            ELSE shared_id_counter + 1)
  ELSE LET id == GeneratedId("F", shared_id_counter)
       IN  [ node    |-> [node EXCEPT !.generated_id_for_llm = id],
             entries |-> << [indent |-> indent_level, type |-> "F",
                             path |-> node.relative_path, id |-> id,
                             mod |-> node.last_modified_timestamp,
                             size |-> node.content_size,
                             binary_hint |-> is_likely_binary(FALSE, << >>,
                                                              node.relative_path)] >>,
             counter |-> shared_id_counter ]

\* write_manifest_entry_recursive: the node with the IDs stored on it and on
\* its descendants, the manifest lines written, and the counter afterwards
write_manifest_entry_recursive(node, indent_level, shared_id_counter) ==
  IF node.type = NODE_TYPE_DIRECTORY
  THEN LET id == IF indent_level = 0 THEN safe_strncpy(ROOT, GeneratedIdSize)
                 ELSE GeneratedId("D", shared_id_counter)
       IN  ManifestChildren([node EXCEPT !.generated_id_for_llm = id], 1, indent_level,
                            << [indent |-> indent_level, type |-> "D",
                                path |-> node.relative_path, id |-> id,
                                mod |-> node.last_modified_timestamp] >>,
                            IF indent_level = 0 THEN shared_id_counter
                            ELSE shared_id_counter + 1)
  ELSE LET id == GeneratedId("F", shared_id_counter)
       IN  [ node    |-> [node EXCEPT !.generated_id_for_llm = id],
             entries |-> << [indent |-> indent_level, type |-> "F",
                             path |-> node.relative_path, id |-> id,
                             mod |-> node.last_modified_timestamp,
                             size |-> node.content_size,
                             binary_hint |-> is_likely_binary(FALSE, << >>,
                                                              node.relative_path)] >>,
             counter |-> shared_id_counter + 1 ]

\* dctx_read_file_content: content_size bytes of the archive from the
\* offset of the node in the data section
dctx_read_file_content(dctx_file, data_section_offset, file_node_info) ==
  LET from == data_section_offset + file_node_info.content_offset_in_data_section
  IN  IF file_node_info.type # NODE_TYPE_FILE
         \/ from + file_node_info.content_size > Len(dctx_file.bytes)
      THEN [ok |-> FALSE, bytes |-> << >>]
      ELSE [ok |-> TRUE,
            bytes |-> SubSeq(dctx_file.bytes, from + 1,
                             from + file_node_info.content_size)]

\* write_file_content_block: the blocks written (none or one)
write_file_content_block(file_node, dctx_file, data_section_offset) ==
  IF file_node.type # NODE_TYPE_FILE THEN << >>
  ELSE IF file_node.generated_id_for_llm = << >> THEN << >>
  ELSE LET content == dctx_read_file_content(dctx_file, data_section_offset, file_node)
       IN  << [ id   |-> file_node.generated_id_for_llm,
                path |-> file_node.relative_path,
                body |-> IF file_node.content_size = 0 THEN [kind |-> "empty"]
                         ELSE IF ~content.ok THEN [kind |-> "read_error"]
                         ELSE IF is_likely_binary(TRUE, content.bytes,
                                                  file_node.relative_path)
                              THEN [kind |-> "binary_placeholder",
                                    size |-> file_node.content_size]
                              ELSE [kind |-> "content", bytes |-> content.bytes] ] >>

RECURSIVE write_all_file_content_blocks_recursive(_, _, _)
RECURSIVE AllBlocksOfChildren(_, _, _, _)
AllBlocksOfChildren(node, i, dctx_file, data_section_offset) ==
  IF i > node.num_children THEN << >>
  ELSE write_all_file_content_blocks_recursive(node.children[i], dctx_file,
                                               data_section_offset)
       \o AllBlocksOfChildren(node, i + 1, dctx_file, data_section_offset)

write_all_file_content_blocks_recursive(node, dctx_file, data_section_offset) ==
  IF node.type = NODE_TYPE_FILE
  THEN write_file_content_block(node, dctx_file, data_section_offset)
  ELSE IF node.type = NODE_TYPE_DIRECTORY
       THEN AllBlocksOfChildren(node, 1, dctx_file, data_section_offset)
       ELSE << >>

NoOutput ==
  [ok |-> FALSE, written |-> FALSE, line |-> << >>, tree |-> NULL,
   entries |-> << >>, blocks |-> << >>]

\* generate_llm_context_to_stream: what the stream holds afterwards and the
\* tree with the IDs stored on its nodes
generate_llm_context_to_stream(root_node, dctx_file, data_section_offset, version_string) ==
  IF root_node = NULL THEN NoOutput
  ELSE LET m == write_manifest_entry_recursive(root_node, 0, 1)
       IN  [ ok      |-> dctx_file.exists,
             written |-> TRUE,
             line    |-> VERSION_HEADER_PREFIX \o version_string \o VERSION_HEADER_SUFFIX,
             tree    |-> m.node,
             entries |-> m.entries,
             blocks  |-> IF dctx_file.exists
                         THEN write_all_file_content_blocks_recursive(
                                m.node, dctx_file, data_section_offset)
                         ELSE << >> ]

\* find_node_by_path_recursive (llm_formatter.c)
RECURSIVE find_node_by_path_recursive(_, _)
RECURSIVE FindByPathInChildren(_, _, _)
FindByPathInChildren(node, relative_path, i) ==
  IF i > node.num_children THEN NULL
  ELSE LET found == IF StartsWith(relative_path, node.children[i].relative_path)
                    THEN find_node_by_path_recursive(node.children[i], relative_path)
                    ELSE NULL
       IN  IF found # NULL THEN found
           ELSE FindByPathInChildren(node, relative_path, i + 1)

find_node_by_path_recursive(node, relative_path) ==
  IF node.relative_path = relative_path THEN node
  ELSE IF node.type = NODE_TYPE_DIRECTORY
       THEN FindByPathInChildren(node, relative_path, 1)
       ELSE NULL

\* the type_str of a summary line
TypeStr(type) ==
  CASE type = "ITEM_ADDED" -> "ADDED"
    [] type = "ITEM_REMOVED" -> "REMOVED"
    [] type = "ITEM_MODIFIED" -> "MODIFIED"
    [] OTHER -> "UNKNOWN"

\* a variant whose second loop writes the content of the ADDED files only
RECURSIVE DiffBlocks_added_only(_, _, _, _, _)
DiffBlocks_added_only(entries, i, new_root_node, dctx_file, data_section_offset) ==
  IF i > Len(entries) THEN << >>
  ELSE LET entry == entries[i]
           node_to_write == find_node_by_path_recursive(new_root_node, entry.relative_path)
       IN  (IF /\ entry.type = "ITEM_ADDED"
               /\ entry.node_type = NODE_TYPE_FILE
               /\ node_to_write # NULL
            THEN write_file_content_block(node_to_write, dctx_file, data_section_offset)
            ELSE << >>)
           \o DiffBlocks_added_only(entries, i + 1, new_root_node, dctx_file,
                                    data_section_offset)

\* the second loop of generate_diff_file over the report, from entry i on
RECURSIVE DiffBlocks(_, _, _, _, _)
DiffBlocks(entries, i, new_root_node, dctx_file, data_section_offset) ==
  IF i > Len(entries) THEN << >>
  ELSE LET entry == entries[i]
           node_to_write == find_node_by_path_recursive(new_root_node, entry.relative_path)
       IN  (IF /\ entry.type \in {"ITEM_ADDED", "ITEM_MODIFIED"}
               /\ entry.node_type = NODE_TYPE_FILE
               /\ node_to_write # NULL
            THEN write_file_content_block(node_to_write, dctx_file, data_section_offset)
            ELSE << >>)
           \o DiffBlocks(entries, i + 1, new_root_node, dctx_file, data_section_offset)

\* generate_diff_file: what the diff file holds afterwards
generate_diff_file(rep, new_root_node, dctx_file, data_section_offset, old_v, new_v) ==
  IF rep = NULL \/ new_root_node = NULL
  THEN [NoOutput EXCEPT !.line = << >>] @@ [change |-> << >>, summary |-> << >>]
  ELSE LET m == write_manifest_entry_recursive(new_root_node, 0, 1)
       IN  [ ok      |-> dctx_file.exists,
             written |-> TRUE,
             line    |-> << >>,
             change  |-> << old_v, new_v >>,
             summary |-> [i \in 1..Len(rep.entries) |->
                            [type_str |-> TypeStr(rep.entries[i].type),
                             path     |-> rep.entries[i].relative_path
                                          \o (IF rep.entries[i].node_type = NODE_TYPE_DIRECTORY
                                              THEN << SEP >> ELSE << >>)]],
             tree    |-> m.node,
             entries |-> m.entries,
             blocks  |-> IF dctx_file.exists
                         THEN DiffBlocks(rep.entries, 1, m.node, dctx_file,
                                         data_section_offset)
                         ELSE << >> ]

-----------------------------------------------------------------------------
(* The walk of the directory the Makefile's test target sets up, followed by
   the writer and the manifest *)

Name_src == << "s", "r", "c" >>
Name_main_c == << "m", "a", "i", "n", ".", "c" >>
Name_README == << "R", "E", "A", "D", "M", "E", ".", "m", "d" >>
Name_config == << "c", "o", "n", "f", "i", "g" >>
Name_some_lib == << "s", "o", "m", "e", "-", "l", "i", "b" >>
Name_index_js == << "i", "n", "d", "e", "x", ".", "j", "s" >>
Name_app_log == << "a", "p", "p", ".", "l", "o", "g" >>
Name_build == << "b", "u", "i", "l", "d" >>
Name_logs == << "l", "o", "g", "s" >>
Name_output_log == << "o", "u", "t", "p", "u", "t", ".", "l", "o", "g" >>
Name_important_log == << "i", "m", "p", "o", "r", "t", "a", "n", "t", ".", "l", "o", "g" >>

Line_build_dir     == << "b", "u", "i", "l", "d", "/" >>
Line_star_log      == << "*", ".", "l", "o", "g" >>
Line_not_important == << "!", "b", "u", "i", "l", "d", "/", "i", "m", "p", "o", "r", "t", "a", "n", "t", ".", "l", "o", "g" >>
Line_build_star    == << "b", "u", "i", "l", "d", "/", "*" >>

\* the .dircontxtignore the test target writes
MakefileIgnoreFile ==
  [ exists |-> TRUE,
    lines  |-> << << "#", " ", "I", "g", "n", "o", "r", "e", " ", "b", "u", "i", "l", "d", " ", "a", "r", "t", "i", "f", "a", "c", "t", "s", " ", "a", "n", "d", " ", "a", "l", "l", " ", "l", "o", "g", " ", "f", "i", "l", "e", "s" >>,
                  Line_build_dir, Line_star_log, << >>,
                  << "#", " ", "N", "e", "g", "a", "t", "i", "o", "n", " ", "R", "u", "l", "e", ":", " ", "R", "e", "-", "i", "n", "c", "l", "u", "d", "e", " ", "t", "h", "e", " ", "i", "m", "p", "o", "r", "t", "a", "n", "t", " ", "l", "o", "g", " ", "f", "i", "l", "e" >>,
                  Line_not_important >> ]

WalkIgnoreFiles ==
  { NoLines, MakefileIgnoreFile } \cup
  { [exists |-> TRUE, lines |-> l] :
      l \in StringsUpTo({ Line_build_dir, Line_star_log, Line_not_important,
                          Line_build_star }, MaxIgnoreLines) }

\* the directory of the test target, in the order readdir returns it
TestDir(important_bytes, with_readme) ==
  DiskDir(<< "p" >>, 1,
    << DiskFile(DEFAULT_IGNORE_FILENAME, 1, << 35, 10 >>),
       DiskDir(Name_git, 1, << DiskFile(Name_config, 1, << 71 >>) >>) >>
    \o (IF with_readme THEN << DiskFile(Name_README, 1, << 82, 10 >>) >> ELSE << >>)
    \o << DiskFile(Name_app_log, 1, << 65 >>),
          DiskDir(Name_build, 1,
            << DiskFile(Name_important_log, 1, important_bytes),
               DiskDir(Name_logs, 1, << DiskFile(Name_output_log, 1, << 66 >>) >>) >>),
          DiskDir(Name_node_modules, 1,
            << DiskDir(Name_some_lib, 1, << DiskFile(Name_index_js, 1, << 76 >>) >>) >>),
          DiskDir(Name_src, 1, << DiskFile(Name_main_c, 1, << 77, 97, 10 >>) >>) >>)

WalkDisks ==
  { TestDir(b, r) : b \in { << 73 >>, << 73, 10 >> }, r \in BOOLEAN }

\* the test target with one fault: the directory src (its last entry) cannot
\* be opened, stat of README.md (its third entry) or of src fails, the target
\* itself cannot be opened or stat'd, or the target is a file
FaultyDisks ==
  LET d == TestDir(<< 73 >>, TRUE)
  IN  { [d EXCEPT !.entries[Len(d.entries)].no_open = TRUE],
        [d EXCEPT !.entries[3].no_stat = TRUE],
        [d EXCEPT !.entries[Len(d.entries)].no_stat = TRUE],
        [d EXCEPT !.no_open = TRUE],
        [d EXCEPT !.no_stat = TRUE],
        DiskFile(<< "p" >>, 1, << 73 >>) }

InitWalk ==
  /\ pc = "walk_load"
  /\ fs \in WalkDisks \cup FaultyDisks
  /\ projIgnore \in WalkIgnoreFiles
  /\ globalIgnore = NoLines
  /\ archive = NoFile /\ manifest = NoManifest /\ diffs = {}
  /\ output_mode = "both" /\ old_version = << >> /\ new_version = V1
  /\ is_update_mode = FALSE /\ old_tree = NULL /\ old_data_offset = 0
  /\ ignore_rules = << >> /\ new_tree = NULL /\ report = NULL
  /\ has_actual_changes = FALSE /\ diff_filepath = << >> /\ exit_code = 0
  /\ item = NULL /\ verdict = FALSE /\ parsed = NULL
  /\ hist = [walked |-> NULL, header_len |-> 0]

WalkLoadRules ==
  /\ pc = "walk_load"
  /\ ignore_rules' = load_ignore_rules(OutputName, projIgnore, globalIgnore)
  /\ pc' = "walk_scan"
  /\ UNCHANGED << diskVars, old_version, new_version, is_update_mode, old_tree,
                  old_data_offset, new_tree, report, has_actual_changes,
                  diff_filepath, exit_code, item, verdict, parsed, hist >>

WalkScan ==
  /\ pc = "walk_scan"
  /\ new_tree' = walk_directory_and_build_tree(fs, ignore_rules)
  /\ hist' = [hist EXCEPT !.walked = fs]
  /\ pc' = IF new_tree' = NULL THEN "walk_failed" ELSE "walk_scanned"
  /\ exit_code' = IF new_tree' = NULL THEN EXIT_FAILURE ELSE exit_code
  /\ UNCHANGED << diskVars, old_version, new_version, is_update_mode, old_tree,
                  old_data_offset, ignore_rules, report, has_actual_changes,
                  diff_filepath, item, verdict, parsed >>

\* files are edited or removed between the walk and the write
WalkDiskChanges ==
  /\ pc = "walk_scanned"
  /\ fs' \in WalkDisks \ {fs}
  /\ pc' = "walk_changed"
  /\ UNCHANGED << projIgnore, globalIgnore, archive, manifest, diffs, output_mode,
                  old_version, new_version, is_update_mode, old_tree,
                  old_data_offset, ignore_rules, new_tree, report,
                  has_actual_changes, diff_filepath, exit_code, item, verdict,
                  parsed, hist >>

WalkWrite ==
  /\ pc \in {"walk_scanned", "walk_changed"}
  /\ LET w == write_dircontxt_file(new_tree, fs)
     IN  /\ archive' = [exists |-> TRUE, bytes |-> w.bytes]
         /\ new_tree' = w.tree
         /\ hist' = [hist EXCEPT !.header_len = w.header_len]
  /\ pc' = "walk_written"
  /\ UNCHANGED << fs, projIgnore, globalIgnore, manifest, diffs, output_mode,
                  old_version, new_version, is_update_mode, old_tree,
                  old_data_offset, ignore_rules, report, has_actual_changes,
                  diff_filepath, exit_code, item, verdict, parsed >>

WalkManifest ==
  /\ pc = "walk_written"
  /\ LET out == generate_llm_context_to_stream(
                  new_tree, archive, DIRCONTXT_SIGNATURE_LEN + hist.header_len,
                  new_version)
     IN  /\ manifest' = [exists |-> out.written, line |-> out.line,
                         entries |-> out.entries, blocks |-> out.blocks]
         /\ new_tree' = out.tree
  /\ pc' = "walk_done"
  /\ UNCHANGED << fs, projIgnore, globalIgnore, archive, diffs, output_mode,
                  old_version, new_version, is_update_mode, old_tree,
                  old_data_offset, ignore_rules, report, has_actual_changes,
                  diff_filepath, exit_code, item, verdict, parsed, hist >>

NextWalk ==
  WalkLoadRules \/ WalkScan \/ WalkDiskChanges \/ WalkWrite \/ WalkManifest

SpecWalk == InitWalk /\ [][NextWalk]_vars

\* the nodes of a tree in pre-order
RECURSIVE PreOrder(_)
RECURSIVE PreOrderOfChildren(_, _)
PreOrderOfChildren(node, i) ==
  IF i > Len(node.children) THEN << >>
  ELSE PreOrder(node.children[i]) \o PreOrderOfChildren(node, i + 1)

PreOrder(node) == << node >> \o PreOrderOfChildren(node, 1)

\* the relative paths of the nodes below the root
TreePaths(root) ==
  LET all == PreOrder(root) IN { all[k].relative_path : k \in 2..Len(all) }

\* the files and directories below a directory of the disk, by relative path
RECURSIVE DiskItems(_, _)
DiskItems(dir, prefix) ==
  UNION { LET e == dir.entries[i]
          IN  {[path |-> prefix \o e.name, name |-> e.name, is_dir |-> e.is_dir]}
              \cup (IF e.is_dir THEN DiskItems(e, prefix \o e.name \o << SEP >>)
                    ELSE {})
          : i \in 1..Len(dir.entries) }

Walked == pc \in {"walk_scanned", "walk_changed", "walk_written", "walk_done"}

Below(path, dir_path) == StartsWith(path, dir_path \o << SEP >>)

Path2(a, b) == a \o << SEP >> \o b

\* C11: with the rules `build/`, `*.log` and `!build/important.log` of the
\* Makefile's test target the snapshot holds src/main.c, README.md and
\* build/important.log and holds nothing of .git, node_modules, build/logs
\* and app.log.
C11_MakefileTest ==
  (Walked /\ projIgnore = MakefileIgnoreFile /\ hist.walked = TestDir(<< 73 >>, TRUE)) =>
    /\ { Path2(Name_src, Name_main_c), Name_README,
         Path2(Name_build, Name_important_log) } \subseteq TreePaths(new_tree)
    /\ \A q \in TreePaths(new_tree) :
         /\ q \notin { Name_git, Name_node_modules, Path2(Name_build, Name_logs),
                       Name_app_log }
         /\ ~Below(q, Name_git) /\ ~Below(q, Name_node_modules)
         /\ ~Below(q, Path2(Name_build, Name_logs))

\* what the walk of the test directory with the test's rules does produce
MakefileTestWalk ==
  (Walked /\ projIgnore = MakefileIgnoreFile /\ hist.walked = TestDir(<< 73 >>, TRUE)) =>
    TreePaths(new_tree)
      = { Name_git, Path2(Name_git, Name_config), Name_README, Name_node_modules,
          Path2(Name_node_modules, Name_some_lib),
          Path2(Path2(Name_node_modules, Name_some_lib), Name_index_js),
          Name_src, Path2(Name_src, Name_main_c) }

\* the directories of the walked disk that the rules ignore
IgnoredDirs ==
  { x \in DiskItems(hist.walked, << >>) :
      x.is_dir /\ should_ignore_item(x.path \o << SEP >>, x.name, TRUE, ignore_rules) }

C13_PrefixKeepsDirectory ==
  (Walked /\ projIgnore.exists /\ projIgnore.lines = << Line_build_star >>) =>
    /\ Name_build \in TreePaths(new_tree)
    /\ \A q \in TreePaths(new_tree) : ~Below(q, Name_build)

\* what the rule `build/*` does: the directory has no node either
PrefixRuleDropsDirectory ==
  (Walked /\ projIgnore.exists /\ projIgnore.lines = << Line_build_star >>) =>
    \A q \in TreePaths(new_tree) : q # Name_build /\ ~Below(q, Name_build)

\* C14: in the manifest the root has the ID ROOT, the k-th node after it in
\* pre-order has the ID D<k> or F<k> by its type, k written with at least
\* three digits; no two nodes share an ID; the ID of a manifest line is the
\* ID stored on the node.
C14_ManifestIds ==
  pc = "walk_done" =>
    LET all == PreOrder(new_tree)
    IN  /\ all[1].generated_id_for_llm = ROOT
        /\ \A k \in 2..Len(all) :
             LET id == all[k].generated_id_for_llm
             IN  /\ Len(id) >= 4
                 /\ id[1] = (IF all[k].type = NODE_TYPE_DIRECTORY THEN "D" ELSE "F")
                 /\ AllDigits(Drop(id, 1))
                 /\ StrToNat(Drop(id, 1)) = k - 1
        /\ \A j, k \in 1..Len(all) :
             j # k => all[j].generated_id_for_llm # all[k].generated_id_for_llm
        /\ Len(manifest.entries) = Len(all)
        /\ \A k \in 1..Len(all) :
             /\ manifest.entries[k].id = all[k].generated_id_for_llm
             /\ manifest.entries[k].path = all[k].relative_path

C14_Witness ==
  /\ pc = "walk_done"
  /\ \E j, k \in 2..Len(PreOrder(new_tree)) :
       /\ j < k
       /\ PreOrder(new_tree)[j].type = NODE_TYPE_FILE
       /\ PreOrder(new_tree)[k].type = NODE_TYPE_DIRECTORY
       /\ PreOrder(new_tree)[k].generated_id_for_llm = << "D", "0", "0", "4" >>

\* the file nodes of a tree in pre-order
FileNodes(root) == SelectSeq(PreOrder(root), LAMBDA n : n.type = NODE_TYPE_FILE)

RECURSIVE SumOfSizes(_, _)
SumOfSizes(files, k) ==
  IF k = 0 THEN 0 ELSE SumOfSizes(files, k - 1) + files[k].content_size

DataSection ==
  SubSeq(archive.bytes, DIRCONTXT_SIGNATURE_LEN + hist.header_len + 1,
         Len(archive.bytes))

\* C19: after the write each file's content_offset is the sum of the
\* content_size of the files before it in pre-order and its content_size is
\* the number of bytes copied for it, those bytes being at that offset of the
\* data section, which has no other bytes; a file that cannot be opened
\* stays in the tree with content_size 0 and adds no bytes.
C19_WriterOffsets ==
  pc \in {"walk_written", "walk_done"} =>
    LET files == FileNodes(new_tree)
    IN  /\ \A k \in 1..Len(files) :
             LET copied == ReadDisk(fs, files[k].disk_path)
                 off    == files[k].content_offset_in_data_section
             IN  /\ off = SumOfSizes(files, k - 1)
                 /\ files[k].content_size
                      = (IF copied.ok THEN Len(copied.bytes) ELSE 0)
                 /\ copied.ok =>
                      SubSeq(DataSection, off + 1, off + files[k].content_size)
                        = copied.bytes
        /\ Len(DataSection) = SumOfSizes(files, Len(files))
        /\ TreePaths(new_tree) = TreePaths(walk_directory_and_build_tree(hist.walked,
                                                                         ignore_rules))

C19_Witness ==
  /\ pc = "walk_written"
  /\ \E j, k \in 1..Len(FileNodes(new_tree)) :
       /\ j < k
       /\ ~ReadDisk(fs, FileNodes(new_tree)[j].disk_path).ok
       /\ FileNodes(new_tree)[k].content_size > 0
       /\ FileNodes(new_tree)[k].content_offset_in_data_section > 0
  /\ \E k \in 1..Len(FileNodes(new_tree)) :
       LET st == StatDisk(hist.walked, FileNodes(new_tree)[k].disk_path)
       IN  st # NULL /\ Len(st.bytes) # FileNodes(new_tree)[k].content_size
                     /\ FileNodes(new_tree)[k].content_size > 0

-----------------------------------------------------------------------------
(* compare_trees, filter_false_positives and generate_diff_file applied to
   the tree read from the archive of one directory and the tree walked from
   another *)

V1_1 == << "V", "1", ".", "1" >>

InitDiff ==
  /\ pc = "diff_old"
  /\ fs \in DiskStates
  /\ hist \in { [old_fs |-> d, compared |-> NULL, self |-> NULL] : d \in DiskStates }
  /\ projIgnore = NoLines /\ globalIgnore = NoLines
  /\ archive = NoFile /\ manifest = NoManifest /\ diffs = {DiffFilepath(V1_1)}
  /\ output_mode = "both" /\ old_version \in {V1, V1_1} /\ new_version = << >>
  /\ is_update_mode = TRUE /\ old_tree = NULL /\ old_data_offset = 0
  /\ ignore_rules = load_ignore_rules(OutputName, NoLines, NoLines)
  /\ new_tree = NULL /\ report = NULL
  /\ has_actual_changes = FALSE /\ diff_filepath = << >>
  /\ exit_code = 0 /\ item = NULL /\ verdict = FALSE /\ parsed = NULL

\* the archive of the earlier directory and the tree its header holds
DiffOldArchive ==
  /\ pc = "diff_old"
  /\ LET w == write_dircontxt_file(
                walk_directory_and_build_tree(hist.old_fs, ignore_rules), hist.old_fs)
         h == ParseHeader(w.bytes)
     IN  /\ archive' = [exists |-> TRUE, bytes |-> w.bytes]
         /\ old_tree' = h.node
         /\ old_data_offset' = h.pos
  /\ pc' = "diff_scan"
  /\ UNCHANGED << fs, projIgnore, globalIgnore, manifest, diffs, output_mode,
                  old_version, new_version, is_update_mode, ignore_rules,
                  new_tree, report, has_actual_changes, diff_filepath,
                  exit_code, item, verdict, parsed, hist >>

DiffScan ==
  /\ pc = "diff_scan"
  /\ new_tree' = walk_directory_and_build_tree(fs, ignore_rules)
  /\ pc' = "diff_compare"
  /\ UNCHANGED << diskVars, old_version, new_version, is_update_mode, old_tree,
                  old_data_offset, ignore_rules, report, has_actual_changes,
                  diff_filepath, exit_code, item, verdict, parsed, hist >>

\* compare_trees of a tree with itself
DiffCompareSelf ==
  /\ pc = "diff_compare" /\ hist.self = NULL
  /\ hist' = [hist EXCEPT !.self = compare_trees(new_tree, new_tree)]
  /\ UNCHANGED << diskVars, pc, old_version, new_version, is_update_mode,
                  old_tree, old_data_offset, ignore_rules, new_tree, report,
                  has_actual_changes, diff_filepath, exit_code, item, verdict,
                  parsed >>

\* a variant in which the archive has been overwritten before the content
\* verification reads it
DiffCompare_after_overwrite ==
  /\ pc = "diff_compare"
  /\ LET compared == compare_trees(old_tree, new_tree)
         over     == [exists |-> TRUE, bytes |-> write_dircontxt_file(new_tree, fs).bytes]
         filtered == IF compared.has_changes
                     THEN filter_false_positives(compared, old_tree, new_tree, fs,
                                                 over, old_data_offset)
                     ELSE compared
     IN  /\ report' = filtered
         /\ has_actual_changes' = filtered.has_changes
         /\ new_version' = SnapshotVersion(is_update_mode, filtered.has_changes,
                                           old_version)
         /\ diff_filepath' = DiffFilepath(new_version')
         /\ hist' = [hist EXCEPT !.compared = compared]
  /\ pc' = "diff_write"
  /\ UNCHANGED << diskVars, old_version, is_update_mode, old_tree,
                  old_data_offset, ignore_rules, new_tree,
                  exit_code, item, verdict, parsed >>

\* 4. Compare and Determine Next Version, in update mode
DiffCompare ==
  /\ pc = "diff_compare"
  /\ LET compared == compare_trees(old_tree, new_tree)
         filtered == IF compared.has_changes
                     THEN filter_false_positives(compared, old_tree, new_tree, fs,
                                                 archive, old_data_offset)
                     ELSE compared
     IN  /\ report' = filtered
         /\ has_actual_changes' = filtered.has_changes
         /\ new_version' = SnapshotVersion(is_update_mode, filtered.has_changes,
                                           old_version)
         /\ diff_filepath' = DiffFilepath(new_version')
         /\ hist' = [hist EXCEPT !.compared = compared]
  /\ pc' = "diff_write"
  /\ UNCHANGED << diskVars, old_version, is_update_mode, old_tree,
                  old_data_offset, ignore_rules, new_tree,
                  exit_code, item, verdict, parsed >>

DiffWrite ==
  /\ pc = "diff_write"
  /\ LET w == write_dircontxt_file(new_tree, fs)
     IN  /\ archive' = [exists |-> TRUE, bytes |-> w.bytes]
         /\ new_tree' = w.tree
  /\ pc' = "diff_generate"
  /\ UNCHANGED << fs, projIgnore, globalIgnore, manifest, diffs, output_mode,
                  old_version, new_version, is_update_mode, old_tree,
                  old_data_offset, ignore_rules, report, has_actual_changes,
                  diff_filepath, exit_code, item, verdict, parsed, hist >>

\* 6. Generate Outputs, the diff file: with changes the tree of the new
\* archive's header is handed to generate_diff_file; without, the diff file
\* at diff_filepath is removed
DiffGenerate ==
  /\ pc = "diff_generate"
  /\ LET h   == ParseHeader(archive.bytes)
         out == generate_diff_file(report, h.node, archive, h.pos,
                                   old_version, new_version)
     IN  IF has_actual_changes /\ is_update_mode
         THEN /\ parsed' = out
              /\ diffs' = IF out.written THEN diffs \cup {diff_filepath} ELSE diffs
         ELSE /\ parsed' = NULL
              /\ diffs' = IF file_exists(diff_filepath, diffs)
                          THEN diffs \ {diff_filepath} ELSE diffs
  /\ pc' = "diff_done"
  /\ UNCHANGED << fs, projIgnore, globalIgnore, archive, manifest, output_mode,
                  old_version, new_version, is_update_mode, old_tree,
                  old_data_offset, ignore_rules, new_tree, report,
                  has_actual_changes, diff_filepath, exit_code, item, verdict,
                  hist >>

NextDiff ==
  DiffOldArchive \/ DiffScan \/ DiffCompareSelf \/ DiffCompare \/ DiffWrite
  \/ DiffGenerate

SpecDiff == InitDiff /\ [][NextDiff]_vars

\* the entries of the report with ADDED or MODIFIED and the type of a file
FileEntriesWithContent(entries) ==
  SelectSeq(entries, LAMBDA e : /\ e.type \in {"ITEM_ADDED", "ITEM_MODIFIED"}
                                /\ e.node_type = NODE_TYPE_FILE)

\* the ID the manifest lines of a diff file give to a path
IdOfPath(entries, path) ==
  LET k == CHOOSE i \in 1..Len(entries) : entries[i].path = path
  IN  entries[k].id

\* C16: the CHANGES_SUMMARY of the diff file has one line per report entry,
\* in order, [ADDED], [REMOVED] or [MODIFIED] and the path, with a trailing
\* '/' for a directory; the content blocks are those of the ADDED and
\* MODIFIED file entries, in order, and no others; each block carries the ID
\* the updated tree gives to that file.
C16_DiffFileContents ==
  (pc = "diff_done" /\ has_actual_changes) =>
    LET with_content == FileEntriesWithContent(report.entries)
    IN  /\ parsed.written
        /\ Len(parsed.summary) = Len(report.entries)
        /\ \A i \in 1..Len(report.entries) :
             LET e == report.entries[i]
             IN  /\ parsed.summary[i].type_str
                      = (CASE e.type = "ITEM_ADDED" -> "ADDED"
                           [] e.type = "ITEM_REMOVED" -> "REMOVED"
                           [] e.type = "ITEM_MODIFIED" -> "MODIFIED")
                 /\ parsed.summary[i].path
                      = (IF e.node_type = NODE_TYPE_DIRECTORY
                         THEN Append(e.relative_path, SEP) ELSE e.relative_path)
        /\ Len(parsed.blocks) = Len(with_content)
        /\ \A i \in 1..Len(with_content) :
             /\ parsed.blocks[i].path = with_content[i].relative_path
             /\ parsed.blocks[i].id
                  = IdOfPath(parsed.entries, with_content[i].relative_path)
             /\ parsed.blocks[i].id[1] = "F"

C16_Witness ==
  /\ pc = "diff_done"
  /\ \E i, k \in 1..Len(report.entries) :
       /\ report.entries[i].type = "ITEM_MODIFIED"
       /\ report.entries[i].node_type = NODE_TYPE_FILE
       /\ report.entries[k].type = "ITEM_REMOVED"
  /\ Len(parsed.blocks) = 1
  /\ parsed.blocks[1].id = << "F", "0", "0", "1" >>

\* C18: compare_trees of a tree with itself reports no change and has no
\* entry.
C18_SelfCompareIsEmpty ==
  (pc \in {"diff_compare", "diff_write", "diff_generate", "diff_done"}
     /\ hist.self # NULL) =>
    /\ ~hist.self.has_changes
    /\ hist.self.entries = << >>

C18_Witness ==
  /\ hist.self # NULL
  /\ \E q \in TreePaths(new_tree) : Below(q, << "d" >>)
  /\ << "a" >> \in TreePaths(new_tree)

\* the node of a tree at a relative path
HasPath(root, path) == \E k \in 1..Len(PreOrder(root)) : PreOrder(root)[k].relative_path = path

NodeAt(root, path) ==
  PreOrder(root)[CHOOSE k \in 1..Len(PreOrder(root)) :
                   PreOrder(root)[k].relative_path = path]

\* the path of the directory a path is in; the root has the empty path
RECURSIVE ParentPath(_)
ParentPath(path) ==
  IF path = << >> THEN << >>
  ELSE IF path[Len(path)] = SEP THEN SubSeq(path, 1, Len(path) - 1)
  ELSE ParentPath(SubSeq(path, 1, Len(path) - 1))

\* path names a directory in both trees, and so do all the paths above it
RECURSIVE MatchedDirectory(_, _, _)
MatchedDirectory(old_root, new_root, path) ==
  \/ path = << >>
  \/ /\ HasPath(old_root, path) /\ HasPath(new_root, path)
     /\ NodeAt(old_root, path).type = NODE_TYPE_DIRECTORY
     /\ NodeAt(new_root, path).type = NODE_TYPE_DIRECTORY
     /\ MatchedDirectory(old_root, new_root, ParentPath(path))

\* the entries the structural diff is to have, as a set
ExpectedEntries(old_root, new_root) ==
  LET in_matched(p) == MatchedDirectory(old_root, new_root, ParentPath(p))
  IN  { [type |-> "ITEM_ADDED", node_type |-> NodeAt(new_root, p).type,
         relative_path |-> p] :
          p \in { q \in TreePaths(new_root) :
                    in_matched(q) /\ ~HasPath(old_root, q) } }
      \cup
      { [type |-> "ITEM_REMOVED", node_type |-> NodeAt(old_root, p).type,
         relative_path |-> p] :
          p \in { q \in TreePaths(old_root) :
                    in_matched(q) /\ ~HasPath(new_root, q) } }
      \cup
      { [type |-> "ITEM_MODIFIED", node_type |-> NodeAt(new_root, p).type,
         relative_path |-> p] :
          p \in { q \in TreePaths(new_root) :
                    /\ in_matched(q) /\ HasPath(old_root, q)
                    /\ LET o == NodeAt(old_root, q)
                           n == NodeAt(new_root, q)
                       IN  \/ o.type # n.type
                           \/ /\ n.type = NODE_TYPE_FILE
                              /\ \/ o.content_size # n.content_size
                                 \/ o.last_modified_timestamp
                                      # n.last_modified_timestamp } }

-----------------------------------------------------------------------------
(* Runs of main: repeated runs and the output modes *)

\* the ID the manifest writer gives to each path of a tree
IdsByPath(root) ==
  LET lines == write_manifest_entry_recursive(root, 0, 1).entries
  IN  { << lines[k].path, lines[k].id >> : k \in 1..Len(lines) }

C17_OutputsByMode ==
  RunDone =>
    /\ archive.exists
    /\ archive.bytes = write_dircontxt_file(new_tree, fs).bytes
    /\ output_mode = "binary_only" =>
         /\ ~manifest.exists
         /\ hist.wrote = NoWrite
         /\ (diff_filepath # << >> /\ hist.emitted = {}) => diff_filepath \notin diffs
    /\ output_mode # "binary_only" =>
         /\ manifest = [exists |-> TRUE, line |-> ManifestLine(new_version)]
         /\ hist.wrote = [ok |-> TRUE, version |-> new_version]

\* what a binary-only run does: the archive is written and no manifest is left
BinaryOnlyOutputs ==
  (RunDone /\ output_mode = "binary_only") =>
    /\ archive.exists
    /\ archive.bytes = write_dircontxt_file(new_tree, fs).bytes
    /\ ~manifest.exists
    /\ hist.wrote = NoWrite
    /\ exit_code = EXIT_SUCCESS

\* what a run in the other modes does: the read-back fails, no manifest is
\* written and the run fails
TextModesWriteNothing ==
  (RunDone /\ output_mode # "binary_only") =>
    /\ hist.wrote = NoWrite
    /\ manifest = hist.start.manifest
    /\ exit_code = EXIT_FAILURE

-----------------------------------------------------------------------------
(* The memory of a header parse that fails *)

Memory == hist[Len(hist)]

FreedTimes(id) == Cardinality({ k \in 1..Len(Memory.frees) : Memory.frees[k] = id })

FailedParseMemoryOfTheCode ==
  (pc = "codec_parsed" /\ ~Memory.ok) =>
    IF Memory.use_after_free
    THEN \E id \in Memory.allocated :
           IF Memory.closed THEN FreedTimes(id) = 2 ELSE FreedTimes(id) = 1
    ELSE /\ \A id \in Memory.allocated : FreedTimes(id) = 1
         /\ Memory.closed

\* a header parse that succeeds frees nothing and hands all its nodes over
ParseKeepsTree ==
  (pc = "codec_parsed" /\ Memory.ok) =>
    /\ Memory.frees = << >>
    /\ Cardinality(Memory.allocated) = Len(PreOrder(ParseHeader(archive.bytes).node))

-----------------------------------------------------------------------------
(* A run whose write of the archive fails *)

\* C29: when the write of the archive fails before the output file is
\* opened the archive is as the run found it; whenever the write fails the
\* manifest and the diff files are as the run found them and the run exits
\* with failure.
C29_FailedWrite ==
  (pc = "idle" /\ hist.failed # "no") =>
    /\ hist.failed = "before_open" => archive = hist.start.archive
    /\ manifest = hist.start.manifest
    /\ diffs = hist.start.diffs
    /\ exit_code = EXIT_FAILURE

\* a failed write in a binary-only run that found a manifest and an archive
C29_Witness ==
  /\ pc = "idle" /\ hist.failed = "before_open"
  /\ output_mode = "binary_only"
  /\ hist.start.manifest.exists /\ hist.start.archive.exists
  /\ manifest.exists

\* the write failed with the output file open: the archive the run found is lost
FailedWriteAfterOpen ==
  (pc = "idle" /\ hist.failed = "after_open") =>
    /\ archive.exists
    /\ \/ Len(archive.bytes) \in CutLengths
       \/ archive.bytes = write_dircontxt_file(new_tree, fs).bytes

-----------------------------------------------------------------------------
(* The version from run to run *)

\* C28: a run that finds the manifest and a readable archive keeps the
\* major number of the version on the manifest; its minor number is the one
\* on the manifest, plus one when the run finds changes. The version never
\* goes back to V1 from a later one.
C28_VersionNeverResets ==
  (RunDone /\ BothAtStart /\ PriorArchive.ok) =>
    LET prior == SscanfMajorMinor(PriorVersion)
        now   == SscanfMajorMinor(new_version)
    IN  /\ now.n >= 1
        /\ now.major = prior.major
        /\ now.minor = prior.minor + (IF SurvivingDifferences.has_changes THEN 1 ELSE 0)

\* what a run does: it takes no archive for readable and starts again at V1
RunsStartAtV1 ==
  RunDone => ~is_update_mode /\ new_version = V1

\* the rule as steps 4 of main applies it once it is in update mode
UpdateModeVersionRule ==
  pc \in {"diff_write", "diff_generate", "diff_done"} =>
    LET prior == SscanfMajorMinor(old_version)
        now   == SscanfMajorMinor(new_version)
    IN  /\ now.major = prior.major
        /\ now.minor = prior.minor + (IF has_actual_changes THEN 1 ELSE 0)

-----------------------------------------------------------------------------
(* The walk of a directory with entries that cannot be read *)

\* the paths of the entries whose stat fails and of the directories that
\* cannot be opened
RECURSIVE FaultyPaths(_, _)
FaultyPaths(dir, prefix) ==
  UNION { LET e == dir.entries[i]
          IN  (IF e.no_stat \/ (e.is_dir /\ e.no_open) THEN {prefix \o e.name} ELSE {})
              \cup (IF e.is_dir THEN FaultyPaths(e, prefix \o e.name \o << SEP >>)
                    ELSE {})
          : i \in 1..Len(dir.entries) }

RootFails(disk) == disk.no_stat \/ ~disk.is_dir \/ disk.no_open

\* the entries of the target directory itself that are readable and that the
\* rules do not ignore
ReadableTopLevel ==
  { x \in DiskItems(hist.walked, << >>) :
      /\ ~Contains(x.path, SEP)
      /\ x.path \notin FaultyPaths(hist.walked, << >>)
      /\ ~should_ignore_item(IF x.is_dir THEN x.path \o << SEP >> ELSE x.path,
                             x.name, x.is_dir, ignore_rules) }

\* C23: the walk fails exactly when the target cannot be stat'd, is not a
\* directory or cannot be opened; in a walk that succeeds an entry whose stat
\* fails and a subdirectory that cannot be opened have no node in the tree,
\* and their readable siblings have theirs.
C23_WalkFailures ==
  /\ pc = "walk_failed" => RootFails(hist.walked)
  /\ Walked =>
       /\ ~RootFails(hist.walked)
       /\ \A q \in FaultyPaths(hist.walked, << >>) : q \notin TreePaths(new_tree)
       /\ \A x \in ReadableTopLevel : x.path \in TreePaths(new_tree)

\* what the walk does: the entry whose stat fails has no node; the
\* subdirectory that cannot be opened keeps its node, without children
WalkFailuresOfTheCode ==
  /\ pc = "walk_failed" => RootFails(hist.walked) /\ exit_code = EXIT_FAILURE
  /\ Walked =>
       /\ ~RootFails(hist.walked)
       /\ \A x \in ReadableTopLevel : x.path \in TreePaths(new_tree)
       /\ \A x \in DiskItems(hist.walked, << >>) :
            LET e == FindEntry(hist.walked, x.path)
            IN  /\ e.no_stat => x.path \notin TreePaths(new_tree)
                /\ (e.is_dir /\ e.no_open /\ ~e.no_stat /\ ~Contains(x.path, SEP)
                    /\ ~should_ignore_item(x.path \o << SEP >>, x.name, TRUE, ignore_rules))
                   => /\ x.path \in TreePaths(new_tree)
                      /\ \A q \in TreePaths(new_tree) : ~Below(q, x.path)

-----------------------------------------------------------------------------
(* The order of the reads and the write of the archive, and the diff files
   of a run without changes *)

OldArchive ==
  [ exists |-> TRUE,
    bytes  |-> write_dircontxt_file(
                 walk_directory_and_build_tree(hist.old_fs, ignore_rules),
                 hist.old_fs).bytes ]

\* C21: from the parse of the prior header until the comparison and the
\* content verification are done the archive on disk is the prior archive,
\* and the report is the one content verification gives when it reads the
\* prior archive.
C21_OverwriteAfterReads ==
  /\ pc \in {"diff_scan", "diff_compare", "diff_write"} => archive = OldArchive
  /\ pc = "diff_write" =>
       report = IF hist.compared.has_changes
                THEN filter_false_positives(hist.compared, old_tree, new_tree, fs,
                                            OldArchive, old_data_offset)
                ELSE hist.compared

\* a file entry whose content verification read the archive and kept it
C21_Witness ==
  /\ pc = "diff_write"
  /\ archive # [exists |-> TRUE, bytes |-> write_dircontxt_file(new_tree, fs).bytes]
  /\ \E i \in 1..Len(report.entries) :
       /\ report.entries[i].type = "ITEM_MODIFIED"
       /\ report.entries[i].node_type = NODE_TYPE_FILE
       /\ find_node_by_path(old_tree, report.entries[i].relative_path).content_size
            = find_node_by_path(new_tree, report.entries[i].relative_path).content_size
       /\ find_node_by_path(old_tree, report.entries[i].relative_path).type
            = NODE_TYPE_FILE

NoChangeRemovesDiffFile ==
  (pc = "diff_done" /\ ~has_actual_changes) =>
    /\ new_version = old_version
    /\ diffs = {DiffFilepath(V1_1)} \ {DiffFilepath(old_version)}

-----------------------------------------------------------------------------
(* The report after the structural comparison and after content verification *)

ReportHas(rep, type, path) ==
  \E i \in 1..Len(rep.entries) :
    rep.entries[i].type = type /\ rep.entries[i].relative_path = path

\* the paths that name a node of another type in the old tree, in a
\* directory both trees have
TypeChanged ==
  { q \in TreePaths(new_tree) :
      /\ HasPath(old_tree, q)
      /\ NodeAt(old_tree, q).type # NodeAt(new_tree, q).type
      /\ MatchedDirectory(old_tree, new_tree, ParentPath(q)) }

TypeChangeToNonEmptySurvives ==
  pc = "diff_write" =>
    \A q \in TypeChanged :
      /\ ReportHas(hist.compared, "ITEM_MODIFIED", q)
      /\ ~(NodeAt(new_tree, q).type = NODE_TYPE_FILE
           /\ NodeAt(new_tree, q).content_size = 0)
           => ReportHas(report, "ITEM_MODIFIED", q) /\ has_actual_changes
      /\ (NodeAt(new_tree, q).type = NODE_TYPE_FILE
          /\ NodeAt(new_tree, q).content_size = 0)
           => ~ReportHas(report, "ITEM_MODIFIED", q)

\* the files of the new tree that the old tree does not have
NewFiles ==
  { q \in TreePaths(new_tree) :
      NodeAt(new_tree, q).type = NODE_TYPE_FILE /\ ~HasPath(old_tree, q) }

HasBlock(path) == \E i \in 1..Len(parsed.blocks) : parsed.blocks[i].path = path

AddedFilesOfMatchedDirectories ==
  (pc = "diff_done" /\ has_actual_changes) =>
    \A q \in NewFiles :
      IF MatchedDirectory(old_tree, new_tree, ParentPath(q))
      THEN ReportHas(report, "ITEM_ADDED", q) /\ HasBlock(q)
      ELSE /\ ~ReportHas(report, "ITEM_ADDED", q) /\ ~HasBlock(q)
           /\ \/ ReportHas(report, "ITEM_ADDED", ParentPath(q))
              \/ ReportHas(report, "ITEM_MODIFIED", ParentPath(q))

IsModifiedFile(e) == e.type = "ITEM_MODIFIED" /\ e.node_type = NODE_TYPE_FILE

\* C30: after the comparison and after content verification has_changes is
\* true exactly when the report has an entry; content verification adds no
\* entry, removes only MODIFIED file entries and keeps the order of the rest.
C30_ReportInvariants ==
  pc = "diff_write" =>
    /\ hist.compared.has_changes = (hist.compared.entries # << >>)
    /\ report.has_changes = (report.entries # << >>)
    /\ has_actual_changes = report.has_changes
    /\ report.entries
         = SelectSeq(hist.compared.entries,
                     LAMBDA e : \E i \in 1..Len(report.entries) : report.entries[i] = e)
    /\ SelectSeq(report.entries, LAMBDA e : ~IsModifiedFile(e))
         = SelectSeq(hist.compared.entries, LAMBDA e : ~IsModifiedFile(e))

\* content verification dropped the only entry of a report
C30_Witness ==
  /\ pc = "diff_write"
  /\ Len(hist.compared.entries) = 1
  /\ IsModifiedFile(hist.compared.entries[1])
  /\ report.entries = << >>
  /\ ~report.has_changes

\* content verification dropped one entry of two
C30_WitnessOrder ==
  /\ pc = "diff_write"
  /\ Len(hist.compared.entries) = 2
  /\ Len(report.entries) = 1
  /\ ~IsModifiedFile(report.entries[1])

=============================================================================
